---- MODULE Spec2Model ----
(***************************************************************************)
(* Verification model of the records-classification pipeline.              *)
(*                                                                         *)
(* Spec        the engine of logic/classification_engine_fixed.py driving  *)
(*             one file at a time through classify_file, preceded by the   *)
(*             scanner's categorisation (logic/file_scanner.py).           *)
(*                                                                         *)
(* Time is counted in whole days: a file's age is now - st_mtime, and      *)
(* "mtime < now - timedelta(days=6*365)" is "age > 6*365".  Text is a      *)
(* sequence of tokens; a token is a run of whitespace, a taxonomy keyword  *)
(* or another word.                                                        *)
(***************************************************************************)
EXTENDS Integers, Sequences, FiniteSets, TLC

(***************************************************************************)
(* Bounds of the model.                                                    *)
(***************************************************************************)
\* longest file content, in tokens
MaxContentLen == 2

\* files in the folder a batch run works through
MaxFiles == 2

\* abandoned llm_call threads that may be running at once
MaxOrphans == 2

\* characters in a file handed to the content extraction
MaxRawLen == 3

\* the max_chars argument of the content extraction
MaxChars == 2

\* longest text, in words, handed to the heuristic classifier
MaxWords == 5

\* most files under the folder the main screen classifies
MaxGuiFiles == 5

\* most update_cancelled_status callbacks waiting when a run is started
MaxWaiting == 1

(***************************************************************************)
(* Program constants.                                                      *)
(***************************************************************************)
\* timedelta(days=6 * 365)
ThresholdDays == 6 * 365

\* msg[:200] in the error result's rationale
MsgLimit == 200

\* the DESTROY cap of the hybrid confidence for files within retention
DestroyCap == 80

INCLUDE_EXT ==
    {".txt", ".csv", ".docx", ".xlsx", ".pptx", ".pdf", ".html", ".htm", ".md",
     ".rtf", ".odt", ".xml", ".json", ".yaml", ".yml", ".log", ".tsv"}

\* the engine's exclusion set
EXCLUDE_EXT ==
    {".tmp", ".bak", ".old", ".zip", ".rar", ".tar", ".gz", ".7z",
     ".exe", ".dll", ".sys", ".iso", ".dmg", ".apk", ".msi", ".ps1", ".psd1",
     ".psm1", ".db", ".mdb", ".accdb", ".sqlite", ".dbf", ".log", ".swp", ".swo"}

\* the scanner's exclusion set
Scanner_EXCLUDE_EXT ==
    {".tmp", ".bak", ".old", ".zip", ".rar", ".tar", ".gz", ".7z",
     ".exe", ".dll", ".sys", ".iso", ".dmg", ".apk", ".msi", ".ps1", ".psd1",
     ".psm1", ".db", ".mdb", ".accdb"}

\* labels the LLM contract of the engine accepts
LLM_LABELS == {"TRANSITORY", "DESTROY", "ARCHIVE", "KEEP"}

\* SCHEDULE_6_KEYWORDS, in dict order
SCHEDULE_6_LABELS == <<"TRANSITORY", "OFFICIAL">>

SCHEDULE_6_KEYWORDS(label) ==
    CASE label = "TRANSITORY" ->
           <<"transitory", "temporary", "short-term", "routine", "informal">>
      [] label = "OFFICIAL" ->
           <<"official", "permanent", "record", "retention", "archival">>
      [] OTHER -> << >>

(***************************************************************************)
(* The inputs the environment supplies.                                    *)
(***************************************************************************)
\* file ages in days, on both sides of the retention threshold
Ages == {1, ThresholdDays, ThresholdDays + 1, 7 * 365}

\* file name suffixes as they are on disk
Suffixes == {".txt", ".TXT", ".log", ".exe", ".swp", ".xyz", ""}

RunModes == {"Classification", "Last Modified"}

Tokens == {" ", "hello", "Routine", "record"}

Contents == UNION {[1..n -> Tokens] : n \in 0..MaxContentLen}

\* lengths of exception messages, around the truncation limit
MsgLens == {40, MsgLimit, MsgLimit + 1}

\* str.lower() on a suffix or token
Lower(s) ==
    CASE s = ".TXT" -> ".txt"
      [] s = "Routine" -> "routine"
      [] OTHER -> s

\* content.lower()
TextLower(content) == [i \in 1..Len(content) |-> Lower(content[i])]

\* not content.strip()
IsBlank(content) == \A i \in 1..Len(content) : content[i] = " "

\* mtime < datetime.now() - timedelta(days=6 * 365)
IsOld(age) == age > ThresholdDays

Min(a, b) == IF a < b THEN a ELSE b
Max(a, b) == IF a > b THEN a ELSE b

(***************************************************************************)
(* LLMEngine._heuristic_classify                                           *)
(***************************************************************************)
\* text.count(kw): the occurrences of one keyword in the text
RECURSIVE CountKw(_, _)
CountKw(text, kw) ==
    IF text = << >> THEN 0
    ELSE (IF Head(text) = kw THEN 1 ELSE 0) + CountKw(Tail(text), kw)

\* sum(text.count(kw) for kw in keywords)
RECURSIVE SumCounts(_, _)
SumCounts(text, kws) ==
    IF kws = << >> THEN 0
    ELSE CountKw(text, Head(kws)) + SumCounts(text, Tail(kws))

keyword_counts(text, label) == SumCounts(text, SCHEDULE_6_KEYWORDS(label))

\* max(keyword_counts, key=keyword_counts.get): the first label, in dict
\* order, that has the highest count
best_label(text) ==
    LET idx == CHOOSE i \in 1..Len(SCHEDULE_6_LABELS) :
                 /\ \A j \in 1..Len(SCHEDULE_6_LABELS) :
                      keyword_counts(text, SCHEDULE_6_LABELS[j])
                        <= keyword_counts(text, SCHEDULE_6_LABELS[i])
                 /\ \A j \in 1..(i - 1) :
                      keyword_counts(text, SCHEDULE_6_LABELS[j])
                        < keyword_counts(text, SCHEDULE_6_LABELS[i])
    IN SCHEDULE_6_LABELS[idx]

\* next((kw for kw in KEYWORDS[best_label] if kw in text), "")
first_match(text, label) ==
    LET kws == SCHEDULE_6_KEYWORDS(label)
        hits == {i \in 1..Len(kws) : CountKw(text, kws[i]) > 0}
    IN IF hits = {} THEN ""
       ELSE kws[CHOOSE i \in hits : \A j \in hits : i <= j]

\* contextualInsights of a result: a format, its argument and, for an
\* exception message, the number of characters kept
Insights(fmt, arg, len) == [fmt |-> fmt, arg |-> arg, msg_len |-> len]

\* the heuristic with the winning key of SCHEDULE_6_KEYWORDS as its label
HeuristicClassify_RawLabel(content) ==
    LET text == TextLower(content)
        best == best_label(text)
        fm == first_match(text, best)
    IN [modelDetermination |-> best,
        confidenceScore |-> 50 + Min(keyword_counts(text, best) * 10, 40),
        contextualInsights |->
            IF fm # "" THEN Insights("Matched keyword", fm, 0)
            ELSE Insights("Heuristic fallback", "", 0)]

\* the heuristic with a confidence that grows with every occurrence
HeuristicClassify_Uncapped(content) ==
    LET text == TextLower(content)
        best == best_label(text)
        fm == first_match(text, best)
    IN [modelDetermination |-> IF best = "OFFICIAL" THEN "KEEP" ELSE best,
        confidenceScore |-> 50 + keyword_counts(text, best) * 10,
        contextualInsights |->
            IF fm # "" THEN Insights("Matched keyword", fm, 0)
            ELSE Insights("Heuristic fallback", "", 0)]

HeuristicClassify(content) ==
    LET text == TextLower(content)
        best == best_label(text)
        fm == first_match(text, best)
    IN [modelDetermination |-> IF best = "OFFICIAL" THEN "KEEP" ELSE best,
        confidenceScore |-> 50 + Min(keyword_counts(text, best) * 10, 40),
        contextualInsights |->
            IF fm # "" THEN Insights("Matched keyword", fm, 0)
            ELSE Insights("Heuristic fallback", "", 0)]

(***************************************************************************)
(* LLMEngine.classify_with_llm of the engine: what the service does for    *)
(* one request, and what the engine makes of it.                           *)
(***************************************************************************)
\* a numeric confidence is held in thousandths: 900 is 0.9
Num(v) == [t |-> "num", v |-> v]
NotNum(t) == [t |-> t, v |-> 0]

Confidences ==
    {Num(0), Num(5), Num(900), Num(1000)}

BadConfidences ==
    {Num(-1), Num(1001), Num(90000), NotNum("str"), NotNum("missing")}

BadRationales == {"", " ", "<missing>", "<not a string>"}

BadLabels == {"OFFICIAL", "keep", "<missing>"}

JsonObject(c, conf, r) ==
    [kind |-> "json", classification |-> c, confidence |-> conf, rationale |-> r]

NoObject(kind) ==
    [kind |-> kind, classification |-> "<missing>",
     confidence |-> NotNum("missing"), rationale |-> "<missing>"]

\* what can come back for one POST: a transport failure, an HTTP error, a
\* body with no {...} in it, a {...} that is not JSON, or a JSON object that is
\* valid or has one field off its contract
ServiceOutcomes ==
    {NoObject(k) : k \in {"connection_refused", "timeout", "http_error",
                          "no_json", "bad_json"}}
      \cup {JsonObject(c, conf, "because") : c \in LLM_LABELS, conf \in Confidences}
      \cup {JsonObject(c, Num(900), "because") : c \in BadLabels}
      \cup {JsonObject("KEEP", conf, "because") : conf \in BadConfidences}
      \cup {JsonObject("KEEP", Num(900), r) : r \in BadRationales}

\* requests.post raised, or raise_for_status did
RequestFailed(o) == o.kind \in {"connection_refused", "timeout", "http_error"}

\* 0 <= conf <= 1 on a number
ConfidenceInRange(conf) == conf.t = "num" /\ 0 <= conf.v /\ conf.v <= 1000

\* isinstance(rationale, str) and rationale.strip()
RationaleOk(r) == r \notin {"", " ", "<missing>", "<not a string>"}

\* the checks of lines 154-169 all pass
ResponseValid(o) ==
    /\ o.kind = "json"
    /\ o.classification \in LLM_LABELS
    /\ ConfidenceInRange(o.confidence)
    /\ RationaleOk(o.rationale)

\* int(conf * 100): Python's int() drops the fraction, towards zero
ScoreOf(conf) ==
    IF conf.v >= 0 THEN (conf.v * 100) \div 1000
    ELSE -(((-conf.v) * 100) \div 1000)

ClassifyWithLLM(o, content) ==
    IF ~RequestFailed(o) /\ ResponseValid(o)
    THEN [modelDetermination |-> o.classification,
          confidenceScore |-> ScoreOf(o.confidence),
          contextualInsights |-> Insights(o.rationale, "", 0),
          used_fallback |-> FALSE]
    ELSE LET fallback == HeuristicClassify(content)
         IN [modelDetermination |-> fallback.modelDetermination,
             confidenceScore |-> fallback.confidenceScore,
             contextualInsights |-> fallback.contextualInsights,
             used_fallback |-> TRUE]

(***************************************************************************)
(* ClassificationEngine._hybrid_confidence                                 *)
(***************************************************************************)
\* min(100, max(1, int(llm_score)))
Clamp(llm_score) == Min(100, Max(1, llm_score))

\* the policy with llm_score taken for a 0-1 fraction and scaled, unclamped
HybridConfidence_AsFraction(llm_score, stat_ok, age, content, determination) ==
    IF determination = "DESTROY"
    THEN IF stat_ok /\ IsOld(age) THEN 100 ELSE Min(DestroyCap, llm_score * 100)
    ELSE IF IsBlank(content) THEN 0
    ELSE llm_score * 100

\* stat_ok: file_path.stat() inside the DESTROY branch succeeds
HybridConfidence(llm_score, stat_ok, age, content, determination) ==
    IF determination = "DESTROY"
    THEN IF ~stat_ok THEN Clamp(llm_score)
         ELSE IF IsOld(age) THEN 100
         ELSE Min(DestroyCap, Max(1, llm_score))
    ELSE IF IsBlank(content) THEN 0
    ELSE Clamp(llm_score)

(***************************************************************************)
(* FileScanner._categorize_file                                            *)
(***************************************************************************)
CategorizeFile(age, extension) ==
    IF IsOld(age) THEN "destroy"
    ELSE IF extension \in Scanner_EXCLUDE_EXT THEN "skip"
    ELSE IF extension \notin INCLUDE_EXT THEN "skip"
    ELSE "analyze"

(***************************************************************************)
(* State of one engine working through files.                              *)
(***************************************************************************)
VARIABLES
    pc,               \* where the scanner and classify_file are for the file
    file,             \* the file on disk: its age and its suffix
    exists,           \* the file is still there (stat and open succeed)
    run_mode,         \* the run_mode argument of classify_file
    ollama_available, \* LLMEngine.ollama_available, set by _initialize_ollama
    category,         \* FileInfo.category the scanner gave the file
    mtime,            \* the age classify_file's stat read, -1 before it
    content,          \* what _read_file_content returned
    reads,            \* how often the file's content was read
    llm,              \* what the service did for this file's requests
    llm_result,       \* what classify_with_llm returned
    exc,              \* the exception caught at line 446
    returned,         \* the ClassificationResults classify_file returned
    raised            \* an exception left classify_file

engineVars == <<pc, file, exists, run_mode, ollama_available, category, mtime,
                content, reads, llm, llm_result, exc, returned, raised>>

(***************************************************************************)
(* State of one run of the command-line batch driver                       *)
(* (Electronic-Records-Classification.py, main).                           *)
(***************************************************************************)
VARIABLES
    b_pc,             \* where main is
    b_files,          \* all_files: index -> the file's age and suffix
    b_exists,         \* index -> the file is still there
    skip_analysis,    \* args.SkipAnalysis
    ollama_installed, \* the module-level ollama is not None
    b_i,              \* the loop index of main's current loop
    b_is_file,        \* f.is_file() of the current element was True
    destroy_files,    \* the list of line 202
    remaining,        \* the list of line 204
    futures,          \* index -> the state of the file's process_file call
    rows              \* the rows written to the CSV, in order

batchVars == <<b_pc, b_files, b_exists, skip_analysis, ollama_installed, b_i,
               b_is_file, destroy_files, remaining, futures, rows>>

(***************************************************************************)
(* State of the thread-based engine (logic/classification_engine.py).      *)
(***************************************************************************)
VARIABLES
    t_pc,             \* where classify_file and classify_with_llm are
    t_file,           \* the file's age
    t_exists,         \* the file is still there
    t_available,      \* LLMEngine.ollama_available and self.ollama
    t_content,        \* what _read_file_content returned
    t_worker,         \* the llm_call thread of this call
    t_container,      \* result_container of this call
    t_failure,        \* how the LLM failed for this file, "" if it did not
    t_llm_result,     \* what classify_with_llm returned
    t_returned,       \* the ClassificationResults classify_file returned
    t_orphans         \* abandoned llm_call threads still running

threadVars == <<t_pc, t_file, t_exists, t_available, t_content, t_worker,
                t_container, t_failure, t_llm_result, t_returned, t_orphans>>

(***************************************************************************)
(* State of FileScanner.scan_directory working through a directory tree    *)
(* (logic/file_scanner.py).                                                *)
(***************************************************************************)
VARIABLES
    s_pc,             \* where scan_directory is
    s_tree,           \* what directory.rglob('*') lists: index -> the entry
    s_exists,         \* index -> the entry is still there
    s_i,              \* the entry the for loop is at
    yielded           \* the FileInfo objects yielded so far, in order

scanVars == <<s_pc, s_tree, s_exists, s_i, yielded>>

(***************************************************************************)
(* State of one classify_with_model call (core/llm_engine.py).             *)
(***************************************************************************)
VARIABLES
    v_pc,             \* where classify_with_model is
    v_content,        \* the content argument
    v_available,      \* what ensure_model_available returns
    v_schema,         \* the jsonschema package is installed
    v_response,       \* what ollama.generate returned, or that it raised
    v_parsed,         \* label, score and notes of lines 63-76
    v_record,         \* the result dict, once built
    v_calls           \* how often ollama.generate was called

validateVars == <<v_pc, v_content, v_available, v_schema, v_response,
                  v_parsed, v_record, v_calls>>

(***************************************************************************)
(* State of one load_config call (config.py).                              *)
(***************************************************************************)
VARIABLES
    c_pc,             \* where load_config is
    c_file,           \* the file at CONFIG_PATH
    c_env,            \* os.environ: PCRC_MODEL and PCRC_OLLAMA_URL
    c_data,           \* the local data
    c_config          \* the AppConfig returned

configVars == <<c_pc, c_file, c_env, c_data, c_config>>

(***************************************************************************)
(* State of one content extraction (extract_file_content of                *)
(* logic/file_scanner.py, read_chunk of core/content_chunker.py).          *)
(***************************************************************************)
VARIABLES
    x_pc,             \* "call" before the function runs, then "returned"
    x_input,          \* the file and the installed parsers
    x_result          \* what the function returned, or that it raised

extractVars == <<x_pc, x_input, x_result>>

(***************************************************************************)
(* State of one classify call whose request fails                          *)
(* (LLMEngine.classify_with_llm falling back to _heuristic_classify,       *)
(* then the hybrid confidence of classify_file).                           *)
(***************************************************************************)
VARIABLES
    h_pc,             \* "llm", then "hybrid", then "done"
    h_content,        \* the text classify_file read from the file
    h_result,         \* what classify_with_llm returned
    h_score           \* what _hybrid_confidence returned

heuristicVars == <<h_pc, h_content, h_result, h_score>>

(***************************************************************************)
(* State of one call of fully_validate_model_output                        *)
(* (core/model_output_validation.py) on a record handed to it.             *)
(***************************************************************************)
VARIABLES
    r_pc,             \* "call" before the validator runs, then "returned"
    r_output,         \* the record handed to the validator
    r_schema,         \* the jsonschema package is installed
    r_report          \* "" when it returned, else the ValidationError's message

validatorVars == <<r_pc, r_output, r_schema, r_report>>

(***************************************************************************)
(* State of the main screen's classification runs (gui/screens.py:         *)
(* _toggle_classification, _start_classification, _stop_classification,    *)
(* classify_files, enumerate_files) on the single GUI thread.              *)
(***************************************************************************)
VARIABLES
    g_n,              \* the number of files under the input folder
    g_processing,     \* self.processing
    g_current,        \* the task self._classification_task refers to, 0 for none
    g_tasks,          \* the classify_files tasks: where each one is suspended
    g_pending,        \* per task, the _update callbacks update_ui_sync scheduled
    g_rows,           \* per task, the rows its callbacks inserted into the tree
    g_cancelled,      \* pending update_cancelled_status callbacks
    g_last            \* the last thing the user toggled: "start" or "stop"

guiVars == <<g_n, g_processing, g_current, g_tasks, g_pending, g_rows,
             g_cancelled, g_last>>

vars == <<engineVars, batchVars, threadVars, scanVars, validateVars,
          configVars, extractVars, heuristicVars, validatorVars, guiVars>>

\* what an action of one component leaves alone
notEngine == <<batchVars, threadVars, scanVars, validateVars, configVars,
               extractVars, heuristicVars, validatorVars, guiVars>>
notBatch == <<engineVars, threadVars, scanVars, validateVars, configVars,
              extractVars, heuristicVars, validatorVars, guiVars>>
notThread == <<engineVars, batchVars, scanVars, validateVars, configVars,
               extractVars, heuristicVars, validatorVars, guiVars>>
notScan == <<engineVars, batchVars, threadVars, validateVars, configVars,
             extractVars, heuristicVars, validatorVars, guiVars>>
notValidate == <<engineVars, batchVars, threadVars, scanVars, configVars,
                 extractVars, heuristicVars, validatorVars, guiVars>>
notConfig == <<engineVars, batchVars, threadVars, scanVars, validateVars,
               extractVars, heuristicVars, validatorVars, guiVars>>
notExtract == <<engineVars, batchVars, threadVars, scanVars, validateVars,
                configVars, heuristicVars, validatorVars, guiVars>>
notHeuristic == <<engineVars, batchVars, threadVars, scanVars, validateVars,
                  configVars, extractVars, validatorVars, guiVars>>
notValidator == <<engineVars, batchVars, threadVars, scanVars, validateVars,
                  configVars, extractVars, heuristicVars, guiVars>>
notGui == <<engineVars, batchVars, threadVars, scanVars, validateVars,
            configVars, extractVars, heuristicVars, validatorVars>>

\* a component that takes no part in a specification rests in these states
EngineIdle ==
    /\ pc = "off"
    /\ file = [age |-> 1, suffix |-> ""]
    /\ exists = FALSE
    /\ run_mode = "Classification"
    /\ ollama_available = FALSE
    /\ category = "none"
    /\ mtime = -1
    /\ content = << >>
    /\ reads = 0
    /\ llm = << >>
    /\ llm_result = << >>
    /\ exc = << >>
    /\ returned = << >>
    /\ raised = FALSE

BatchIdle ==
    /\ b_pc = "off"
    /\ b_files = << >>
    /\ b_exists = << >>
    /\ skip_analysis = FALSE
    /\ ollama_installed = FALSE
    /\ b_i = 0
    /\ b_is_file = FALSE
    /\ destroy_files = << >>
    /\ remaining = << >>
    /\ futures = << >>
    /\ rows = << >>

ThreadIdle ==
    /\ t_pc = "off"
    /\ t_file = 1
    /\ t_exists = FALSE
    /\ t_available = FALSE
    /\ t_content = << >>
    /\ t_worker = "none"
    /\ t_container = << >>
    /\ t_failure = ""
    /\ t_llm_result = << >>
    /\ t_returned = << >>
    /\ t_orphans = 0

ScanIdle ==
    /\ s_pc = "off"
    /\ s_tree = << >>
    /\ s_exists = << >>
    /\ s_i = 0
    /\ yielded = << >>

ValidateIdle ==
    /\ v_pc = "off"
    /\ v_content = << >>
    /\ v_available = FALSE
    /\ v_schema = FALSE
    /\ v_response = << >>
    /\ v_parsed = << >>
    /\ v_record = << >>
    /\ v_calls = 0

ConfigIdle ==
    /\ c_pc = "off"
    /\ c_file = << >>
    /\ c_env = << >>
    /\ c_data = << >>
    /\ c_config = << >>

ExtractIdle ==
    /\ x_pc = "off"
    /\ x_input = << >>
    /\ x_result = << >>

HeuristicIdle ==
    /\ h_pc = "off"
    /\ h_content = << >>
    /\ h_result = << >>
    /\ h_score = << >>

ValidatorIdle ==
    /\ r_pc = "off"
    /\ r_output = << >>
    /\ r_schema = FALSE
    /\ r_report = << >>

GuiIdle ==
    /\ g_n = 0
    /\ g_processing = FALSE
    /\ g_current = 0
    /\ g_tasks = << >>
    /\ g_pending = << >>
    /\ g_rows = << >>
    /\ g_cancelled = 0
    /\ g_last = "none"

\* the components added after the extraction rest
MoreIdle == HeuristicIdle /\ ValidatorIdle /\ GuiIdle

\* the components beside the three engines rest
OthersIdle == ScanIdle /\ ValidateIdle /\ ConfigIdle /\ ExtractIdle /\ MoreIdle

Files == [age : Ages, suffix : Suffixes]

ClassificationResult(extension, determination, score, insights, status, error_len) ==
    [extension |-> extension,
     model_determination |-> determination,
     confidence_score |-> score,
     contextual_insights |-> insights,
     status |-> status,
     error_message_len |-> error_len]

\* the locals of a call that has not started
Fresh ==
    /\ category' = "none"
    /\ mtime' = -1
    /\ content' = << >>
    /\ reads' = 0
    /\ llm' = << >>
    /\ llm_result' = << >>
    /\ exc' = << >>
    /\ returned' = << >>
    /\ raised' = FALSE

EngineInit ==
    /\ pc = "scan"
    /\ file \in Files
    /\ exists = TRUE
    /\ run_mode \in RunModes
    /\ ollama_available \in BOOLEAN
    /\ category = "none"
    /\ mtime = -1
    /\ content = << >>
    /\ reads = 0
    /\ llm = << >>
    /\ llm_result = << >>
    /\ exc = << >>
    /\ returned = << >>
    /\ raised = FALSE

\* return <result> from classify_file
Return(r) ==
    /\ returned' = Append(returned, r)
    /\ pc' = "done"

\* the file is deleted, moved or made inaccessible by someone else
FileVanishes ==
    /\ UNCHANGED notEngine
    /\ exists
    /\ pc \notin {"done", "raised"}
    /\ exists' = FALSE
    /\ UNCHANGED <<pc, file, run_mode, ollama_available, category, mtime,
                   content, reads, llm, llm_result, exc, returned, raised>>

\* FileScanner.scan_directory for one file: _analyze_file, or the 'skip'
\* FileInfo of the except branch
AnalyzeFile ==
    /\ UNCHANGED notEngine
    /\ pc = "scan"
    /\ category' = IF exists THEN CategorizeFile(file.age, Lower(file.suffix))
                   ELSE "skip"
    /\ pc' = "stat"
    /\ UNCHANGED <<file, exists, run_mode, ollama_available, mtime, content,
                   reads, llm, llm_result, exc, returned, raised>>

\* classify_file, lines 307-314: file_path.stat()
Stat ==
    /\ UNCHANGED notEngine
    /\ pc = "stat"
    /\ IF exists
       THEN /\ mtime' = file.age
            /\ pc' = "ext"
            /\ exc' = exc
       ELSE /\ \E n \in MsgLens, aw \in BOOLEAN :
                 exc' = <<[len |-> n, await_expression |-> aw]>>
            /\ pc' = "except"
            /\ mtime' = mtime
    /\ UNCHANGED <<file, exists, run_mode, ollama_available, category, content,
                   reads, llm, llm_result, returned, raised>>

\* classify_file, lines 316-347: the two extension checks
CheckExtension ==
    /\ UNCHANGED notEngine
    /\ pc = "ext"
    /\ LET extension == Lower(file.suffix) IN
         IF extension \in EXCLUDE_EXT
         THEN Return(ClassificationResult(extension, "SKIP", 100,
                  Insights("Excluded file type: ", extension, 0), "skipped", 0))
         ELSE IF extension \notin INCLUDE_EXT
         THEN Return(ClassificationResult(extension, "SKIP", 100,
                  Insights("Unsupported file type: ", extension, 0), "skipped", 0))
         ELSE /\ pc' = "read"
              /\ returned' = returned
    /\ UNCHANGED <<file, exists, run_mode, ollama_available, category, mtime,
                   content, reads, llm, llm_result, exc, raised>>

\* classify_file line 350, _read_file_content: the text, or "" when open or
\* read fails
ReadFileContent ==
    /\ UNCHANGED notEngine
    /\ pc = "read"
    /\ \/ exists /\ content' \in Contents
       \/ content' = << >>
    /\ reads' = reads + 1
    /\ pc' = "mode"
    /\ UNCHANGED <<file, exists, run_mode, ollama_available, category, mtime,
                   llm, llm_result, exc, returned, raised>>

\* the age step without the run-mode branch of lines 352-380
CheckAge_IgnoresRunMode ==
    /\ UNCHANGED notEngine
    /\ pc = "mode"
    /\ IF IsOld(mtime)
       THEN Return(ClassificationResult(file.suffix, "DESTROY", 100,
                Insights("Older than 6 years - automatic destroy", "", 0),
                "success", 0))
       ELSE /\ pc' = "llm"
            /\ returned' = returned
    /\ UNCHANGED <<file, exists, run_mode, ollama_available, category, mtime,
                   content, reads, llm, llm_result, exc, raised>>

\* classify_file, lines 352-396: run mode "Last Modified", and the automatic
\* DESTROY of the normal mode
CheckAge ==
    /\ UNCHANGED notEngine
    /\ pc = "mode"
    /\ LET extension == Lower(file.suffix) IN
         IF run_mode = "Last Modified"
         THEN IF IsOld(mtime)
              THEN Return(ClassificationResult(extension, "DESTROY", 100,
                       Insights("Last Modified date > 6 years", "", 0),
                       "Marked for Destruction", 0))
              ELSE Return(ClassificationResult(extension, "SKIP", 100,
                       Insights("File newer than 6 years", "", 0), "skipped", 0))
         ELSE IF IsOld(mtime)
         THEN Return(ClassificationResult(file.suffix, "DESTROY", 100,
                  Insights("Older than 6 years - automatic destroy", "", 0),
                  "success", 0))
         ELSE /\ pc' = "llm"
              /\ returned' = returned
    /\ UNCHANGED <<file, exists, run_mode, ollama_available, category, mtime,
                   content, reads, llm, llm_result, exc, raised>>

\* classify_file, lines 415-421: classify_with_llm posts one request,
\* whatever ollama_available says
CallLLM ==
    /\ UNCHANGED notEngine
    /\ pc = "llm"
    /\ \E o \in ServiceOutcomes :
         /\ llm' = Append(llm, o)
         /\ llm_result' = <<ClassifyWithLLM(o, content)>>
    /\ pc' = "hybrid"
    /\ UNCHANGED <<file, exists, run_mode, ollama_available, category, mtime,
                   content, reads, exc, returned, raised>>

\* classify_file, lines 424-444: the hybrid confidence and the result
Score ==
    /\ UNCHANGED notEngine
    /\ pc = "hybrid"
    /\ LET r == llm_result[1] IN
         Return(ClassificationResult(file.suffix, r.modelDetermination,
             HybridConfidence(r.confidenceScore, exists, file.age, content,
                              r.modelDetermination),
             r.contextualInsights,
             IF r.used_fallback THEN "fallback" ELSE "success", 0))
    /\ UNCHANGED <<file, exists, run_mode, ollama_available, category, mtime,
                   content, reads, llm, llm_result, exc, raised>>

\* len(msg) after line 452-453
MessageLen(e) == e.len + (IF e.await_expression THEN 27 ELSE 0)

\* a handler that logs and re-raises
HandleException_Reraise ==
    /\ UNCHANGED notEngine
    /\ pc = "except"
    /\ pc' = "raised"
    /\ raised' = TRUE
    /\ UNCHANGED <<file, exists, run_mode, ollama_available, category, mtime,
                   content, reads, llm, llm_result, exc, returned>>

\* classify_file, lines 446-476: the handler of the outer try
HandleException ==
    /\ UNCHANGED notEngine
    /\ pc = "except"
    /\ Return(ClassificationResult(file.suffix, "ERROR", 0,
           Insights("Processing error: ", "", Min(MessageLen(exc[1]), MsgLimit)),
           "error", MessageLen(exc[1])))
    /\ UNCHANGED <<file, exists, run_mode, ollama_available, category, mtime,
                   content, reads, llm, llm_result, exc, raised>>

\* the caller hands the next file to the scanner and the engine
NextFile ==
    /\ UNCHANGED notEngine
    /\ pc \in {"done", "raised"}
    /\ pc' = "scan"
    /\ file' \in Files
    /\ exists' = TRUE
    /\ run_mode' \in RunModes
    /\ Fresh
    /\ UNCHANGED ollama_available

Init == EngineInit /\ BatchIdle /\ ThreadIdle /\ OthersIdle

Next ==
    \/ FileVanishes
    \/ AnalyzeFile
    \/ Stat
    \/ CheckExtension
    \/ ReadFileContent
    \/ CheckAge
    \/ CallLLM
    \/ Score
    \/ HandleException
    \/ NextFile

Spec == Init /\ [][Next]_vars

(***************************************************************************)
(* Properties of classify_file (Spec).                                     *)
(***************************************************************************)
\* the call has returned, and this is its result
Done == pc = "done" /\ Len(returned) = 1
Result == returned[1]

\* classify_file's own stat succeeded and read an age past the threshold
StatSawOld == mtime # -1 /\ IsOld(mtime)
StatSawYoung == mtime # -1 /\ ~IsOld(mtime)

\* the suffix is excluded, or not on the allow-list, for the engine and the
\* scanner alike
UnsupportedType ==
    \/ Lower(file.suffix) \in EXCLUDE_EXT \cap Scanner_EXCLUDE_EXT
    \/ Lower(file.suffix) \notin INCLUDE_EXT

\* C1: whatever fails (stat, the read, the service, the stat inside the
\* hybrid confidence), classify_file never raises and a finished call has
\* returned exactly one result; a call whose outer try caught an exception
\* returned status=error, label=ERROR, confidence 0 and a rationale holding
\* at most the first 200 characters of the message.
C1_ExactlyOneResultNeverRaises ==
    /\ ~raised
    /\ pc # "raised"
    /\ Len(returned) <= 1
    /\ (pc = "done" <=> Len(returned) = 1)
    /\ (Done /\ exc # << >> =>
          /\ Result.status = "error"
          /\ Result.model_determination = "ERROR"
          /\ Result.confidence_score = 0
          /\ Result.contextual_insights.fmt = "Processing error: "
          /\ Result.contextual_insights.msg_len <= MsgLimit
          /\ Result.contextual_insights.msg_len
               = Min(Result.error_message_len, MsgLimit))
    /\ (Done /\ Result.status = "error" => exc # << >>)

\* C1 witness: stat failed with a message longer than the limit, and the
\* call returned the error result with the message cut
C1_Witness ==
    /\ Done
    /\ exc # << >>
    /\ Result.status = "error"
    /\ Result.error_message_len > MsgLimit
    /\ Result.contextual_insights.msg_len = MsgLimit

\* C2 (as claimed): a file whose last-modified time is more than 6*365 days
\* back gets label=DESTROY, confidence 100 and status=destroy-auto, whatever
\* its content, its extension, the run mode and the service.
C2_OldFileAutoDestroy ==
    Done /\ StatSawOld =>
        /\ Result.model_determination = "DESTROY"
        /\ Result.confidence_score = 100
        /\ Result.status = "destroy-auto"

\* C3 (as claimed): the age check comes before the type check in the scanner
\* and in the engine: a file past the threshold with an excluded or
\* unsupported suffix is reported as Destroy, never as Skip, by both.
C3_AgeBeforeType ==
    Done /\ StatSawOld /\ UnsupportedType =>
        /\ category = "destroy"
        /\ Result.model_determination = "DESTROY"
        /\ Result.status # "skipped"

\* C5: on every path (skip, automatic destroy, LLM success, heuristic
\* fallback, error) and for every raw confidence of the classifier, the
\* result's confidenceScore lies in 0..100.
C5_ConfidenceInRange ==
    \A i \in 1..Len(returned) : returned[i].confidence_score \in 0..100

\* C5 witness: the service answered within its contract with a confidence
\* that scales to 0, and the result carries the clamped score
C5_Witness ==
    /\ Done
    /\ Result.status = "success"
    /\ llm # << >>
    /\ llm[1].confidence = Num(5)
    /\ llm_result[1].confidenceScore = 0
    /\ Result.confidence_score = 1

\* C6 (as claimed): every result's status is one of success, skipped,
\* destroy-auto, fallback, error; status=error implies label=ERROR and
\* confidence 0; status=destroy-auto implies label=DESTROY and confidence 100.
C6_StatusInvariant ==
    \A i \in 1..Len(returned) :
        /\ returned[i].status \in
             {"success", "skipped", "destroy-auto", "fallback", "error"}
        /\ (returned[i].status = "error" =>
              /\ returned[i].model_determination = "ERROR"
              /\ returned[i].confidence_score = 0)
        /\ (returned[i].status = "destroy-auto" =>
              /\ returned[i].model_determination = "DESTROY"
              /\ returned[i].confidence_score = 100)

\* C7 (as claimed): when the classifier returns DESTROY for a file within the
\* retention period the final confidence is at most 80, also when the stat
\* inside the hybrid confidence fails; so a DESTROY result with confidence 100
\* is a file past the threshold.
C7_DestroyCapped ==
    Done /\ StatSawYoung /\ Result.model_determination = "DESTROY" =>
        /\ Result.confidence_score <= DestroyCap
        /\ Result.confidence_score # 100

\* C8 (as claimed): a classified file within the retention period whose
\* content is empty or whitespace-only has confidence 0, whatever label and
\* raw confidence the classifier returned.
C8_BlankContentZero ==
    Done /\ StatSawYoung /\ llm_result # << >> /\ IsBlank(content) =>
        Result.confidence_score = 0

\* the suffix passes both extension checks of classify_file
SupportedType ==
    /\ Lower(file.suffix) \notin EXCLUDE_EXT
    /\ Lower(file.suffix) \in INCLUDE_EXT

\* C13: in run mode "Last Modified" classify_file sends no request to the LLM
\* and never runs the heuristic; once its stat has succeeded the result is a
\* function of the age and the extension alone, and a file of a supported
\* type that is more than 6*365 days old is reported as DESTROY.
C13_LastModifiedBypassesLLM ==
    run_mode = "Last Modified" =>
        /\ llm = << >>
        /\ llm_result = << >>
        /\ pc \notin {"llm", "hybrid"}
        /\ (Done /\ mtime # -1 =>
              Result.model_determination =
                  IF ~SupportedType THEN "SKIP"
                  ELSE IF IsOld(mtime) THEN "DESTROY"
                  ELSE "SKIP")
        /\ (Done /\ StatSawOld /\ SupportedType =>
              /\ Result.model_determination = "DESTROY"
              /\ Result.confidence_score = 100)

\* C13 witness: a supported file one day past the threshold, in run mode
\* "Last Modified", came back as DESTROY with the service never asked
C13_Witness ==
    /\ Done
    /\ run_mode = "Last Modified"
    /\ SupportedType
    /\ mtime = ThresholdDays + 1
    /\ content # << >>
    /\ llm = << >>
    /\ Result.model_determination = "DESTROY"

\* the file stayed readable, has a supported type, is within the retention
\* period, and classify_file has returned in Classification mode
ClassifiedYoungFile ==
    /\ Done
    /\ exists
    /\ run_mode = "Classification"
    /\ SupportedType
    /\ StatSawYoung

C16_UnavailableShortCircuits ==
    ~ollama_available =>
        /\ llm = << >>
        /\ (llm_result # << >> => llm_result[1].used_fallback)

\* C19 (as claimed): for a file past the threshold, the content is never read
\* and no classifier is invoked between entering classify_file and the
\* DESTROY result.
C19_DestroyBeforeRead ==
    Done /\ StatSawOld /\ Result.model_determination = "DESTROY" =>
        /\ reads = 0
        /\ llm = << >>
        /\ llm_result = << >>

\* C28 (as claimed): for a file that stays in place, classified in run mode
\* "Classification", the scanner's category is 'destroy' exactly when
\* classify_file returns DESTROY by the age rule, 'skip' exactly when it
\* returns a skipped result, and 'analyze' exactly when it goes on to read
\* and classify the content.
C28_ScannerAgreesWithEngine ==
    Done /\ exists /\ mtime # -1 /\ run_mode = "Classification" =>
        /\ (category = "destroy"
              <=> Result.model_determination = "DESTROY" /\ llm_result = << >>)
        /\ (category = "skip" <=> Result.status = "skipped")
        /\ (category = "analyze" <=> llm_result # << >>)

\* C23 (as claimed): the hybrid confidence policy, applied again to the
\* label, the content, the file age and the confidence of a result it has
\* produced, returns that confidence to within one point.
C23_HybridIdempotent ==
    Done /\ Result.status \in {"success", "fallback"} =>
        LET again == HybridConfidence(Result.confidence_score, TRUE, mtime,
                                      content, Result.model_determination)
        IN /\ again - Result.confidence_score <= 1
           /\ Result.confidence_score - again <= 1

(***************************************************************************)
(* The command-line batch driver: Electronic-Records-Classification.py.    *)
(***************************************************************************)
CLI_INCLUDE_EXT ==
    {".txt", ".csv", ".docx", ".xlsx", ".pptx", ".pdf", ".html", ".htm", ".md",
     ".rtf", ".odt", ".xml", ".json", ".yaml", ".yml", ".log", ".tsv"}

CLI_EXCLUDE_EXT ==
    {".tmp", ".bak", ".old", ".zip", ".rar", ".tar", ".gz", ".7z",
     ".exe", ".dll", ".sys", ".iso", ".dmg", ".apk", ".msi", ".ps1", ".psd1",
     ".psm1", ".db", ".mdb", ".accdb"}

\* labels the driver's LLM contract accepts
CLI_LABELS == {"TRANSITORY", "DESTROY", "KEEP"}

BatchAges == {1, ThresholdDays + 1}
BatchSuffixes == {".txt", ".TXT", ".exe", ".xyz"}
BatchContents == {<< >>, <<"hello">>}

\* what ollama.chat does for one call: it raises, or answers with no JSON
\* object, or with one whose label and confidenceScore are these
CliOutcomes ==
    {[kind |-> k, label |-> "", score |-> 0] : k \in {"raise", "no_json"}}
      \cup {[kind |-> "json", label |-> l, score |-> sc] :
               l \in {"DESTROY", "KEEP", "ARCHIVE"}, sc \in {0, 90, 100}}

\* hybrid_confidence of the driver
hybrid_confidence(llm_score, stat_ok, age, content_, determination) ==
    IF determination = "DESTROY"
    THEN IF ~stat_ok THEN Min(100, Max(1, llm_score))
         ELSE IF IsOld(age) THEN 100
         ELSE Min(80, Max(1, llm_score))
    ELSE IF IsBlank(content_) THEN 0
    ELSE Min(100, Max(1, llm_score))

\* classify_with_ollama: the validated and rescored answer, or the ERROR dict
classify_with_ollama(installed, o, content_, stat_ok, age) ==
    IF ~installed
    THEN [modelDetermination |-> "ERROR", confidenceScore |-> 0,
          contextualInsights |-> "ollama not installed"]
    ELSE IF /\ o.kind = "json"
            /\ o.label \in CLI_LABELS
            /\ 1 <= o.score /\ o.score <= 100
    THEN [modelDetermination |-> o.label,
          confidenceScore |->
              hybrid_confidence(o.score, stat_ok, age, content_, o.label),
          contextualInsights |-> "insights"]
    ELSE [modelDetermination |-> "ERROR", confidenceScore |-> 0,
          contextualInsights |-> "Classification error: "]

\* the lists of lines 206-209, in the order of all_files
IsSupported(i) ==
    /\ Lower(b_files[i].suffix) \in CLI_INCLUDE_EXT
    /\ Lower(b_files[i].suffix) \notin CLI_EXCLUDE_EXT

skipped_files == SelectSeq(remaining, LAMBDA i : ~IsSupported(i))
supported == SelectSeq(remaining, LAMBDA i : IsSupported(i))

Range(seq) == {seq[k] : k \in 1..Len(seq)}

Row(i, determination, score, insights) ==
    [file |-> i, ModelDetermination |-> determination,
     ConfidenceScore |-> score, ContextualInsights |-> insights]

NoFuture == [st |-> "none", content |-> << >>, det |-> "", conf |-> 0]

BatchInit ==
    /\ b_pc = "list_destroy"
    /\ b_files \in [1..MaxFiles -> [age : BatchAges, suffix : BatchSuffixes]]
    /\ b_exists = [i \in 1..MaxFiles |-> TRUE]
    /\ skip_analysis \in BOOLEAN
    /\ ollama_installed \in BOOLEAN
    /\ b_i = 1
    /\ b_is_file = FALSE
    /\ destroy_files = << >>
    /\ remaining = << >>
    /\ futures = [i \in 1..MaxFiles |-> NoFuture]
    /\ rows = << >>

BatchRunning == b_pc \notin {"off", "done", "raised"}

\* a file of the folder is deleted or moved while the run is under way
BatchFileVanishes ==
    /\ UNCHANGED notBatch
    /\ BatchRunning
    /\ \E i \in 1..MaxFiles :
         /\ b_exists[i]
         /\ b_exists' = [b_exists EXCEPT ![i] = FALSE]
    /\ UNCHANGED <<b_pc, b_files, skip_analysis, ollama_installed, b_i,
                   b_is_file, destroy_files, remaining, futures, rows>>

\* main, lines 202-205: f.is_file() of one element of a list comprehension
ListIsFile ==
    /\ UNCHANGED notBatch
    /\ b_pc \in {"list_destroy", "list_remaining"}
    /\ b_i <= MaxFiles
    /\ ~b_is_file
    /\ IF b_exists[b_i]
       THEN b_is_file' = TRUE /\ b_i' = b_i
       ELSE b_is_file' = FALSE /\ b_i' = b_i + 1
    /\ UNCHANGED <<b_pc, b_files, b_exists, skip_analysis, ollama_installed,
                   destroy_files, remaining, futures, rows>>

\* main, lines 202-205: f.stat() of the element, which raises out of main
\* when the file is gone, and the comparison with the threshold
ListStat ==
    /\ UNCHANGED notBatch
    /\ b_pc \in {"list_destroy", "list_remaining"}
    /\ b_is_file
    /\ b_is_file' = FALSE
    /\ IF ~b_exists[b_i]
       THEN /\ b_pc' = "raised"
            /\ UNCHANGED <<b_i, destroy_files, remaining>>
       ELSE /\ b_pc' = b_pc
            /\ b_i' = b_i + 1
            /\ destroy_files' =
                 IF b_pc = "list_destroy" /\ IsOld(b_files[b_i].age)
                 THEN Append(destroy_files, b_i) ELSE destroy_files
            /\ remaining' =
                 IF b_pc = "list_remaining" /\ ~IsOld(b_files[b_i].age)
                 THEN Append(remaining, b_i) ELSE remaining
    /\ UNCHANGED <<b_files, b_exists, skip_analysis, ollama_installed,
                   futures, rows>>

\* a list comprehension of lines 202-205 is through all_files
ListEnd ==
    /\ UNCHANGED notBatch
    /\ b_pc \in {"list_destroy", "list_remaining"}
    /\ b_i > MaxFiles
    /\ b_pc' = IF b_pc = "list_destroy" THEN "list_remaining" ELSE "write_destroy"
    /\ b_i' = 1
    /\ UNCHANGED <<b_files, b_exists, skip_analysis, ollama_installed,
                   b_is_file, destroy_files, remaining, futures, rows>>

\* the files, determination and insights of the write_batch call main is in
BatchList ==
    CASE b_pc = "write_destroy" -> destroy_files
      [] b_pc = "write_skipped" -> skipped_files
      [] b_pc = "write_supported" -> supported
      [] OTHER -> << >>

BatchDetermination ==
    CASE b_pc = "write_destroy" -> "DESTROY"
      [] b_pc = "write_skipped" -> "SKIPPED"
      [] OTHER -> "Not Analyzed"

BatchInsights ==
    CASE b_pc = "write_destroy" -> "Older than 6 years"
      [] b_pc = "write_skipped" -> "Unsupported type"
      [] OTHER -> IF skip_analysis THEN "Analysis skipped"
                  ELSE "ollama not installed"

\* write_batch, lines 216-227: one row, or the exception of f.stat()
WriteBatchRow ==
    /\ UNCHANGED notBatch
    /\ b_pc \in {"write_destroy", "write_skipped", "write_supported"}
    /\ b_i <= Len(BatchList)
    /\ IF ~b_exists[BatchList[b_i]]
       THEN /\ b_pc' = "raised"
            /\ UNCHANGED <<b_i, rows>>
       ELSE /\ rows' = Append(rows,
                 Row(BatchList[b_i], BatchDetermination,
                     IF BatchDetermination = "DESTROY" THEN 100 ELSE 0,
                     BatchInsights))
            /\ b_i' = b_i + 1
            /\ b_pc' = b_pc
    /\ UNCHANGED <<b_files, b_exists, skip_analysis, ollama_installed,
                   b_is_file, destroy_files, remaining, futures>>

\* main, lines 229-232 and 258-260: a write_batch call returns, and main
\* goes on to the next one, to the executor, or ends
WriteBatchEnd ==
    /\ UNCHANGED notBatch
    /\ b_pc \in {"write_destroy", "write_skipped", "write_supported"}
    /\ b_i > Len(BatchList)
    /\ b_i' = 1
    /\ b_pc' = CASE b_pc = "write_destroy" -> "write_skipped"
                 [] b_pc = "write_skipped" ->
                      IF ~skip_analysis /\ ollama_installed THEN "submit"
                      ELSE "write_supported"
                 [] OTHER -> "done"
    /\ UNCHANGED <<b_files, b_exists, skip_analysis, ollama_installed,
                   b_is_file, destroy_files, remaining, futures, rows>>

\* main, lines 239-251: one process_file call is submitted per supported file
Submit ==
    /\ UNCHANGED notBatch
    /\ b_pc = "submit"
    /\ futures' = [i \in 1..MaxFiles |->
                     IF i \in Range(supported)
                     THEN [NoFuture EXCEPT !.st = "queued"] ELSE NoFuture]
    /\ b_pc' = "collect"
    /\ UNCHANGED <<b_files, b_exists, skip_analysis, ollama_installed, b_i,
                   b_is_file, destroy_files, remaining, rows>>

\* process_file, lines 156-160: the first lines of the file, or '' when the
\* open fails or the file has fewer lines than asked for
ProcessFileRead ==
    /\ UNCHANGED notBatch
    /\ \E i \in 1..MaxFiles :
         /\ futures[i].st = "queued"
         /\ \E c \in BatchContents :
              /\ b_exists[i] \/ c = << >>
              /\ futures' = [futures EXCEPT ![i].st = "read", ![i].content = c]
    /\ UNCHANGED <<b_pc, b_files, b_exists, skip_analysis, ollama_installed,
                   b_i, b_is_file, destroy_files, remaining, rows>>

\* process_file, lines 162-169: classify_with_ollama
ProcessFileClassify ==
    /\ UNCHANGED notBatch
    /\ \E i \in 1..MaxFiles :
         /\ futures[i].st = "read"
         /\ \E o \in CliOutcomes :
              LET result == classify_with_ollama(ollama_installed, o,
                                futures[i].content, b_exists[i], b_files[i].age)
              IN futures' = [futures EXCEPT
                                ![i].st = "classified",
                                ![i].det = result.modelDetermination,
                                ![i].conf = result.confidenceScore]
    /\ UNCHANGED <<b_pc, b_files, b_exists, skip_analysis, ollama_installed,
                   b_i, b_is_file, destroy_files, remaining, rows>>

\* process_file, lines 171-181: file_path.stat() outside any try, then the row
ProcessFileRow ==
    /\ UNCHANGED notBatch
    /\ \E i \in 1..MaxFiles :
         /\ futures[i].st = "classified"
         /\ futures' = [futures EXCEPT
                          ![i].st = IF b_exists[i] THEN "done" ELSE "failed"]
    /\ UNCHANGED <<b_pc, b_files, b_exists, skip_analysis, ollama_installed,
                   b_i, b_is_file, destroy_files, remaining, rows>>

\* main, lines 253-255: future.result() of a completed future, which returns
\* the row or raises the worker's exception in main
Collect ==
    /\ UNCHANGED notBatch
    /\ b_pc = "collect"
    /\ \E i \in 1..MaxFiles :
         \/ /\ futures[i].st = "done"
            /\ rows' = Append(rows, Row(i, futures[i].det, futures[i].conf,
                                        "insights"))
            /\ futures' = [futures EXCEPT ![i].st = "written"]
            /\ b_pc' = b_pc
         \/ /\ futures[i].st = "failed"
            /\ b_pc' = "raised"
            /\ UNCHANGED <<rows, futures>>
    /\ UNCHANGED <<b_files, b_exists, skip_analysis, ollama_installed, b_i,
                   b_is_file, destroy_files, remaining>>

\* main, line 253: as_completed is exhausted
CollectEnd ==
    /\ UNCHANGED notBatch
    /\ b_pc = "collect"
    /\ \A i \in 1..MaxFiles : futures[i].st \in {"none", "written"}
    /\ b_pc' = "done"
    /\ UNCHANGED <<b_files, b_exists, skip_analysis, ollama_installed, b_i,
                   b_is_file, destroy_files, remaining, futures, rows>>

BatchNext ==
    \/ BatchFileVanishes
    \/ ListIsFile
    \/ ListStat
    \/ ListEnd
    \/ WriteBatchRow
    \/ WriteBatchEnd
    \/ Submit
    \/ ProcessFileRead
    \/ ProcessFileClassify
    \/ ProcessFileRow
    \/ Collect
    \/ CollectEnd

InitBatch == EngineIdle /\ BatchInit /\ ThreadIdle /\ OthersIdle

SpecBatch == InitBatch /\ [][BatchNext]_vars

(***************************************************************************)
(* Properties of the batch driver (SpecBatch).                             *)
(***************************************************************************)
\* the file is within the retention period and of an excluded or
\* unsupported type
BatchSkipFile(i) == ~IsOld(b_files[i].age) /\ ~IsSupported(i)

\* C9 (as claimed): a file within the retention period whose extension is
\* excluded or not on the allow-list gets a terminal Skip row with label SKIP
\* and confidence 100 from the batch driver, as it does from the engine, and
\* no process_file call is made for it.
C9_SkipRowConfidence100 ==
    \A k \in 1..Len(rows) :
        BatchSkipFile(rows[k].file) =>
            /\ rows[k].ModelDetermination = "SKIP"
            /\ rows[k].ConfidenceScore = 100
            /\ futures[rows[k].file].st = "none"

\* C10 (as claimed): an exception raised while one file is processed (the
\* file disappears between listing and stat, a worker raises) never escapes
\* to the batch driver, and a finished run has written a row for every file
\* it listed.
C10_NoExceptionEscapes ==
    /\ b_pc # "raised"
    /\ (b_pc = "done" =>
          \A i \in Range(destroy_files) \cup Range(remaining) :
              \E k \in 1..Len(rows) : rows[k].file = i)

(***************************************************************************)
(* The thread-based engine: logic/classification_engine.py.  The body of   *)
(* classify_with_llm from line 126 on is read at the indentation of the    *)
(* function (as written, the module does not compile).                     *)
(***************************************************************************)
\* labels the thread-based engine's LLM contract accepts
THREAD_LABELS == {"TRANSITORY", "DESTROY", "KEEP"}

ThreadAges == {1, ThresholdDays, ThresholdDays + 1}
ThreadContents == {<< >>, <<" ">>, <<"hello">>, <<"Routine">>}

\* what ollama.chat does in the worker: it raises, or answers with no JSON
\* object, or with one whose modelDetermination, confidenceScore and
\* contextualInsights are these
ThreadOutcomes ==
    {[kind |-> k, label |-> "", score |-> 0, insights |-> ""] :
        k \in {"raise", "no_json"}}
      \cup {[kind |-> "json", label |-> l, score |-> sc, insights |-> "insights"] :
               l \in {"DESTROY", "KEEP", "ARCHIVE"}, sc \in {0, 1, 90, 100, 101}}
      \cup {[kind |-> "json", label |-> "KEEP", score |-> 90, insights |-> r] :
               r \in {"", "<missing>", "<not a string>"}}

\* the dict classify_with_llm returns on every failure
ErrorDict(insights) ==
    [modelDetermination |-> "ERROR", confidenceScore |-> 0,
     contextualInsights |-> insights]

\* classify_with_llm, lines 162-212, on the worker's finished container
ParseContainer(o) ==
    IF o.kind = "raise" THEN ErrorDict("Classification error: ")
    ELSE IF o.kind # "json" THEN ErrorDict("Classification error: ")
    ELSE IF o.label \notin THREAD_LABELS THEN ErrorDict("Classification error: ")
    ELSE IF ~(1 <= o.score /\ o.score <= 100)
    THEN ErrorDict("Classification error: ")
    ELSE IF o.insights \in {"<missing>", "<not a string>"}
    THEN ErrorDict("Classification error: ")
    ELSE [modelDetermination |-> o.label, confidenceScore |-> o.score,
          contextualInsights |-> o.insights]

\* which failure that was, "" for a result within the contract
FailureOf(o) ==
    IF o.kind = "raise" THEN "error"
    ELSE IF ParseContainer(o).modelDetermination = "ERROR" THEN "invalid"
    ELSE ""

\* ClassificationEngine._hybrid_confidence of the thread-based engine
Thread_hybrid_confidence(llm_score, stat_ok, age, content_, determination) ==
    IF determination = "DESTROY"
    THEN IF ~stat_ok THEN Min(100, Max(1, llm_score))
         ELSE IF IsOld(age) THEN 100
         ELSE Min(80, Max(1, llm_score))
    ELSE IF IsBlank(content_) THEN 0
    ELSE Min(100, Max(1, llm_score))

\* the thread-based engine's ClassificationResult has no status field
ThreadResult(determination, score, insights) ==
    [model_determination |-> determination,
     confidence_score |-> score,
     contextual_insights |-> insights]

ThreadInit ==
    /\ t_pc = "stat"
    /\ t_file \in ThreadAges
    /\ t_exists = TRUE
    /\ t_available \in BOOLEAN
    /\ t_content = << >>
    /\ t_worker = "none"
    /\ t_container = << >>
    /\ t_failure = ""
    /\ t_llm_result = << >>
    /\ t_returned = << >>
    /\ t_orphans = 0

ThreadReturn(r) ==
    /\ t_returned' = Append(t_returned, r)
    /\ t_pc' = "done"

\* the file is deleted, moved or made inaccessible by someone else
ThreadFileVanishes ==
    /\ UNCHANGED notThread
    /\ t_exists
    /\ t_pc \notin {"off", "done"}
    /\ t_exists' = FALSE
    /\ UNCHANGED <<t_pc, t_file, t_available, t_content, t_worker,
                   t_container, t_failure, t_llm_result, t_returned, t_orphans>>

\* classify_file, lines 280-287: file_path.stat()
ThreadStat ==
    /\ UNCHANGED notThread
    /\ t_pc = "stat"
    /\ t_pc' = IF t_exists THEN "read" ELSE "except"
    /\ UNCHANGED <<t_file, t_exists, t_available, t_content, t_worker,
                   t_container, t_failure, t_llm_result, t_returned, t_orphans>>

\* classify_file line 290, _read_file_content
ThreadRead ==
    /\ UNCHANGED notThread
    /\ t_pc = "read"
    /\ \/ t_exists /\ t_content' \in ThreadContents
       \/ t_content' = << >>
    /\ t_pc' = "age"
    /\ UNCHANGED <<t_file, t_exists, t_available, t_worker, t_container,
                   t_failure, t_llm_result, t_returned, t_orphans>>

\* classify_file, lines 292-307: the automatic DESTROY
ThreadCheckAge ==
    /\ UNCHANGED notThread
    /\ t_pc = "age"
    /\ IF IsOld(t_file)
       THEN ThreadReturn(ThreadResult("DESTROY", 100,
                "Older than 6 years - automatic destroy"))
       ELSE t_pc' = "llm" /\ t_returned' = t_returned
    /\ UNCHANGED <<t_file, t_exists, t_available, t_content, t_worker,
                   t_container, t_failure, t_llm_result, t_orphans>>

\* classify_with_llm, lines 109-114: the service was not reachable at start-up
LLMUnavailable ==
    /\ UNCHANGED notThread
    /\ t_pc = "llm"
    /\ ~t_available
    /\ t_llm_result' = <<ErrorDict("LLM service unavailable")>>
    /\ t_failure' = "unavailable"
    /\ t_pc' = "hybrid"
    /\ UNCHANGED <<t_file, t_exists, t_available, t_content, t_worker,
                   t_container, t_returned, t_orphans>>

\* classify_with_llm, lines 116-150: the worker thread is started and joined
StartWorker ==
    /\ UNCHANGED notThread
    /\ t_pc = "llm"
    /\ t_available
    /\ t_orphans < MaxOrphans
    /\ t_worker' = "running"
    /\ t_container' = << >>
    /\ t_pc' = "join"
    /\ UNCHANGED <<t_file, t_exists, t_available, t_content, t_failure,
                   t_llm_result, t_returned, t_orphans>>

\* llm_call, lines 132-146: ollama.chat returns or raises, and the worker
\* stores that in the container of its call
WorkerCompletes ==
    /\ UNCHANGED notThread
    /\ t_worker = "running"
    /\ \E o \in ThreadOutcomes : t_container' = <<o>>
    /\ t_worker' = "finished"
    /\ UNCHANGED <<t_pc, t_file, t_exists, t_available, t_content, t_failure,
                   t_llm_result, t_returned, t_orphans>>

\* classify_with_llm, lines 150-160: join returns with the thread alive
JoinTimeout ==
    /\ UNCHANGED notThread
    /\ t_pc = "join"
    /\ t_worker = "running"
    /\ t_llm_result' = <<ErrorDict("LLM call timed out after ")>>
    /\ t_failure' = "timeout"
    /\ t_worker' = "none"
    /\ t_orphans' = t_orphans + 1
    /\ t_pc' = "hybrid"
    /\ UNCHANGED <<t_file, t_exists, t_available, t_content, t_container,
                   t_returned>>

\* an abandoned llm_call ends: it writes the container of the call that
\* started it, which nothing reads any more
OrphanCompletes ==
    /\ UNCHANGED notThread
    /\ t_orphans > 0
    /\ t_orphans' = t_orphans - 1
    /\ UNCHANGED <<t_pc, t_file, t_exists, t_available, t_content, t_worker,
                   t_container, t_failure, t_llm_result, t_returned>>

\* classify_with_llm, lines 162-212: the worker finished within the timeout
JoinFinished ==
    /\ UNCHANGED notThread
    /\ t_pc = "join"
    /\ t_worker = "finished"
    /\ t_llm_result' = <<ParseContainer(t_container[1])>>
    /\ t_failure' = FailureOf(t_container[1])
    /\ t_worker' = "none"
    /\ t_pc' = "hybrid"
    /\ UNCHANGED <<t_file, t_exists, t_available, t_content, t_container,
                   t_returned, t_orphans>>

\* classify_file, lines 317-337: the hybrid confidence and the result
ThreadScore ==
    /\ UNCHANGED notThread
    /\ t_pc = "hybrid"
    /\ LET r == t_llm_result[1] IN
         ThreadReturn(ThreadResult(r.modelDetermination,
             Thread_hybrid_confidence(r.confidenceScore, t_exists, t_file,
                                      t_content, r.modelDetermination),
             r.contextualInsights))
    /\ UNCHANGED <<t_file, t_exists, t_available, t_content, t_worker,
                   t_container, t_failure, t_llm_result, t_orphans>>

\* classify_file, lines 339-363: the handler of the outer try
ThreadHandleException ==
    /\ UNCHANGED notThread
    /\ t_pc = "except"
    /\ ThreadReturn(ThreadResult("ERROR", 0, "Processing error: "))
    /\ UNCHANGED <<t_file, t_exists, t_available, t_content, t_worker,
                   t_container, t_failure, t_llm_result, t_orphans>>

\* process_file calls classify_file for the next file
ThreadNextFile ==
    /\ UNCHANGED notThread
    /\ t_pc = "done"
    /\ t_pc' = "stat"
    /\ t_file' \in ThreadAges
    /\ t_exists' = TRUE
    /\ t_content' = << >>
    /\ t_container' = << >>
    /\ t_failure' = ""
    /\ t_llm_result' = << >>
    /\ t_returned' = << >>
    /\ UNCHANGED <<t_available, t_worker, t_orphans>>

ThreadNext ==
    \/ ThreadFileVanishes
    \/ ThreadStat
    \/ ThreadRead
    \/ ThreadCheckAge
    \/ LLMUnavailable
    \/ StartWorker
    \/ WorkerCompletes
    \/ JoinTimeout
    \/ OrphanCompletes
    \/ JoinFinished
    \/ ThreadScore
    \/ ThreadHandleException
    \/ ThreadNextFile

InitThread == EngineIdle /\ BatchIdle /\ ThreadInit /\ OthersIdle

SpecThread == InitThread /\ [][ThreadNext]_vars

(***************************************************************************)
(* Properties of the thread-based engine (SpecThread).                     *)
(***************************************************************************)
\* C4 (as claimed): every LLM failure (service unreachable, timeout, an
\* error of the call, a response off the output contract) is recoverable:
\* the heuristic classifier produces the file's outcome, so the result's
\* label is one of the heuristic's and never ERROR.
C4_LLMFailureFallsBack ==
    t_pc = "done" /\ t_failure # "" =>
        /\ t_returned[1].model_determination # "ERROR"
        /\ t_returned[1].model_determination \in {"TRANSITORY", "KEEP"}

\* C17 (as claimed): when the worker has not completed by the timeout the
\* call is treated as failed and the heuristic produces the file's outcome;
\* the abandoned worker runs on, and what it produces later changes neither
\* the outcome of the call nor any result already returned.
C17_TimeoutFallsToHeuristic ==
    /\ [](t_pc = "done" /\ t_failure = "timeout" =>
            t_returned[1].model_determination \in {"TRANSITORY", "KEEP"})
    /\ [][OrphanCompletes =>
            UNCHANGED <<t_pc, t_container, t_llm_result, t_returned>>]_vars

\* C20 (as claimed): what classify_with_llm returns for an answer it accepts
\* has a label of the taxonomy, an integer confidence in 0..100 and a
\* non-empty rationale; an answer with a missing field, a wrong type, a value
\* out of range or no parsable JSON yields the heuristic's outcome instead.
C20_NoPartiallyValidResult ==
    t_llm_result # << >> =>
        /\ (t_failure = "" =>
              /\ t_llm_result[1].modelDetermination \in THREAD_LABELS
              /\ t_llm_result[1].confidenceScore \in 0..100
              /\ t_llm_result[1].contextualInsights # "")
        /\ (t_failure = "invalid" =>
              t_llm_result[1].modelDetermination \in {"TRANSITORY", "KEEP"})

\* C30 (as claimed): every result of the thread-based engine whose label is
\* ERROR has confidence 0.
C30_ErrorHasZeroConfidence ==
    \A k \in 1..Len(t_returned) :
        t_returned[k].model_determination = "ERROR" =>
            t_returned[k].confidence_score = 0

(***************************************************************************)
(* FileScanner.scan_directory over a directory tree.                       *)
(***************************************************************************)
\* how an entry's name starts: plainly, with '.', or with '~$'
ScanNames == {"report", ".profile", "~$report"}

\* file_path.name.startswith('.') or file_path.name.startswith('~$')
StartsHidden(name) == name \in {".profile", "~$report"}

\* the entries rglob('*') can list: regular files and directories
ScanEntries ==
    [kind : {"file", "dir"}, name : ScanNames,
     age : {1, ThresholdDays + 1}, suffix : {".txt", ".exe"}]

FileInfo(i, category_, reason) ==
    [file |-> i, category |-> category_, reason |-> reason]

ScanInit ==
    /\ s_pc = "is_file"
    /\ s_tree \in [1..MaxFiles -> ScanEntries]
    /\ s_exists = [i \in 1..MaxFiles |-> TRUE]
    /\ s_i = 1
    /\ yielded = << >>

\* an entry is deleted or moved while the scan is under way
ScanFileVanishes ==
    /\ UNCHANGED notScan
    /\ s_pc \notin {"off", "done"}
    /\ \E i \in 1..MaxFiles :
         /\ s_exists[i]
         /\ s_exists' = [s_exists EXCEPT ![i] = FALSE]
    /\ UNCHANGED <<s_pc, s_tree, s_i, yielded>>

\* scan_directory, lines 101-103: the next entry, passed over unless it is a
\* regular file
ScanIsFile ==
    /\ UNCHANGED notScan
    /\ s_pc = "is_file"
    /\ s_i <= MaxFiles
    /\ IF s_exists[s_i] /\ s_tree[s_i].kind = "file"
       THEN s_pc' = "name" /\ s_i' = s_i
       ELSE s_pc' = "is_file" /\ s_i' = s_i + 1
    /\ UNCHANGED <<s_tree, s_exists, yielded>>

\* scan_directory, lines 104-105: a name that starts with '.' or '~$' is
\* passed over
ScanName ==
    /\ UNCHANGED notScan
    /\ s_pc = "name"
    /\ IF StartsHidden(s_tree[s_i].name)
       THEN s_pc' = "is_file" /\ s_i' = s_i + 1
       ELSE s_pc' = "analyze" /\ s_i' = s_i
    /\ UNCHANGED <<s_tree, s_exists, yielded>>

\* scan_directory, lines 106-118: _analyze_file and the yield, or the 'skip'
\* FileInfo of the except branch when stat fails
ScanAnalyze ==
    /\ UNCHANGED notScan
    /\ s_pc = "analyze"
    /\ yielded' = Append(yielded,
         IF s_exists[s_i]
         THEN FileInfo(s_i, CategorizeFile(s_tree[s_i].age,
                                           Lower(s_tree[s_i].suffix)), "")
         ELSE FileInfo(s_i, "skip", "Error analyzing file: "))
    /\ s_pc' = "is_file"
    /\ s_i' = s_i + 1
    /\ UNCHANGED <<s_tree, s_exists>>

\* scan_directory, line 101: rglob is exhausted
ScanEnd ==
    /\ UNCHANGED notScan
    /\ s_pc = "is_file"
    /\ s_i > MaxFiles
    /\ s_pc' = "done"
    /\ UNCHANGED <<s_tree, s_exists, s_i, yielded>>

ScanNext ==
    \/ ScanFileVanishes
    \/ ScanIsFile
    \/ ScanName
    \/ ScanAnalyze
    \/ ScanEnd

InitScan ==
    /\ EngineIdle /\ BatchIdle /\ ThreadIdle
    /\ ScanInit /\ ValidateIdle /\ ConfigIdle /\ ExtractIdle /\ MoreIdle

SpecScan == InitScan /\ [][ScanNext]_vars

(***************************************************************************)
(* Properties of the scan (SpecScan).                                      *)
(***************************************************************************)
\* the FileInfo objects yielded for entry i
YieldedFor(i) == {k \in 1..Len(yielded) : yielded[k].file = i}

\* C11 (as claimed): after a completed scan there is exactly one output
\* entry, with a non-empty category, for every regular file of the tree; the
\* destroy, skip and analyze sets are disjoint and together cover all files,
\* and no file is dropped.
C11_EveryFileOneRow ==
    s_pc = "done" =>
        \A i \in 1..MaxFiles :
            s_tree[i].kind = "file" /\ s_exists[i] =>
                /\ Cardinality(YieldedFor(i)) = 1
                /\ \A k \in YieldedFor(i) :
                     yielded[k].category \in {"destroy", "skip", "analyze"}

(***************************************************************************)
(* classify_with_model (core/llm_engine.py) and the output validator       *)
(* (core/model_output_validation.py).  Scores are held in thousandths, the *)
(* hybrid confidence in ten-thousandths.                                   *)
(***************************************************************************)
\* str.upper() on the labels a response can carry
Upper(s) ==
    CASE s = "official" -> "OFFICIAL"
      [] s = "transitory" -> "TRANSITORY"
      [] OTHER -> s

\* what ollama.generate does: it raises, or returns something with no label
\* and score in it, or a dict with these label, score and contextualInsights
GenerateOutcomes ==
    {[kind |-> k, label |-> "", score |-> Num(0), notes |-> "raw"] :
        k \in {"raise", "text"}}
      \cup {[kind |-> "labelled", label |-> l, score |-> sc, notes |-> "notes"] :
               l \in {"TRANSITORY", "official", "KEEP", "<not a string>"},
               sc \in {Num(0), Num(900), Num(1000), Num(1500), Num(-100),
                       NotNum("str")}}
      \cup {[kind |-> "labelled", label |-> "TRANSITORY", score |-> Num(900),
             notes |-> "<not a string>"]}

ValidateContents == {<< >>, <<"hello">>, <<"Routine">>, <<"Routine", "record">>}

\* [kw for kw in SCHEDULE_6_KEYWORDS.get(label.upper(), []) if kw in text]
KeywordsFound(text, label) ==
    SelectSeq(SCHEDULE_6_KEYWORDS(Upper(label)),
              LAMBDA kw : CountKw(TextLower(text), kw) > 0)

\* compute_keyword_confidence: matches / len(keywords), in thousandths
compute_keyword_confidence(text, classification) ==
    LET keywords == SCHEDULE_6_KEYWORDS(Upper(classification))
    IN IF keywords = << >> THEN 0
       ELSE (Len(KeywordsFound(text, classification)) * 1000) \div Len(keywords)

\* hybrid_confidence of the validator: 0.7 * model + 0.3 * keyword score,
\* in ten-thousandths
weighted_confidence(model_confidence, text, classification) ==
    7 * model_confidence + 3 * compute_keyword_confidence(text, classification)

\* classify_with_model, lines 78-114: the result dict
BuildRecord(parsed, text) ==
    [label |-> parsed.label,
     score |-> parsed.score,
     classification_details |->
        <<[keywords_found |-> KeywordsFound(text, parsed.label),
           hybrid_confidence |->
               weighted_confidence(parsed.score, text, parsed.label),
           model_confidence |-> parsed.score,
           keyword_confidence |->
               compute_keyword_confidence(text, parsed.label),
           validation_passed |->
               weighted_confidence(parsed.score, text, parsed.label) >= 7000,
           notes |-> parsed.notes]>>,
     text |-> text,
     validation_error |-> ""]

\* the dict of the outer handler, lines 128-136
ErrorRecord(text) ==
    [label |-> "ERROR", score |-> 0, classification_details |-> << >>,
     text |-> text, validation_error |-> "exception"]

\* validate_json_schema against MODEL_OUTPUT_SCHEMA; a no-op when jsonschema
\* is not installed
SchemaViolated(output, installed) ==
    LET details == output.classification_details[1] IN
    /\ installed
    /\ \/ output.score < 0 \/ output.score > 1000
       \/ details.hybrid_confidence < 0 \/ details.hybrid_confidence > 10000
       \/ details.model_confidence < 0 \/ details.model_confidence > 1000
       \/ details.keyword_confidence < 0 \/ details.keyword_confidence > 1000
       \/ details.notes = "<not a string>"

\* the validator without its sixth check
fully_validate_model_output_NoFlagCheck(output, installed) ==
    LET details == output.classification_details[1]
        class_keywords == SCHEDULE_6_KEYWORDS(Upper(output.label))
    IN IF SchemaViolated(output, installed)
       THEN "JSON schema validation error"
       ELSE IF Upper(output.label) \notin {"TRANSITORY", "OFFICIAL"}
       THEN "Label not in allowed classes"
       ELSE ""

\* fully_validate_model_output: "" when it returns, else the message of the
\* ValidationError it raises
fully_validate_model_output(output, installed) ==
    LET details == output.classification_details[1]
        class_keywords == SCHEDULE_6_KEYWORDS(Upper(output.label))
        recomputed == weighted_confidence(details.model_confidence,
                                          output.text, output.label)
        diff == recomputed - details.hybrid_confidence
    IN IF SchemaViolated(output, installed)
       THEN "JSON schema validation error"
       ELSE IF output.score < 0 THEN "Value below minimum"
       ELSE IF output.score > 1000 THEN "Value above maximum"
       ELSE IF details.hybrid_confidence < 0 THEN "Value below minimum"
       ELSE IF details.hybrid_confidence > 10000 THEN "Value above maximum"
       ELSE IF details.notes = "<not a string>" THEN "Expected type str"
       ELSE IF diff > 100 \/ diff < -100 THEN "Hybrid confidence mismatch"
       ELSE IF Upper(output.label) \notin {"TRANSITORY", "OFFICIAL"}
       THEN "Label not in allowed classes"
       ELSE IF \E k \in 1..Len(details.keywords_found) :
                 \A j \in 1..Len(class_keywords) :
                     details.keywords_found[k] # class_keywords[j]
       THEN "keywords_found not subset of class keywords"
       ELSE IF details.hybrid_confidence >= 7000 /\ ~details.validation_passed
       THEN "validation_passed must be True"
       ELSE ""

ValidateInit ==
    /\ v_pc = "start"
    /\ v_content \in ValidateContents
    /\ v_available \in BOOLEAN
    /\ v_schema \in BOOLEAN
    /\ v_response = << >>
    /\ v_parsed = << >>
    /\ v_record = << >>
    /\ v_calls = 0

\* classify_with_model, lines 52-53: ensure_model_available
EnsureModel ==
    /\ UNCHANGED notValidate
    /\ v_pc = "start"
    /\ v_pc' = IF v_available THEN "generate" ELSE "except"
    /\ UNCHANGED <<v_content, v_available, v_schema, v_response, v_parsed,
                   v_record, v_calls>>

\* classify_with_model, line 60: ollama.generate
Generate ==
    /\ UNCHANGED notValidate
    /\ v_pc = "generate"
    /\ \E o \in GenerateOutcomes :
         /\ v_response' = <<o>>
         /\ v_pc' = IF o.kind = "raise" THEN "except" ELSE "parse"
    /\ v_calls' = v_calls + 1
    /\ UNCHANGED <<v_content, v_available, v_schema, v_parsed, v_record>>

\* classify_with_model, lines 63-76: label, score and notes of the response;
\* float() raises on a score that is no number
ParseResponse ==
    /\ UNCHANGED notValidate
    /\ v_pc = "parse"
    /\ LET o == v_response[1] IN
         IF o.kind = "labelled"
         THEN IF o.score.t # "num"
              THEN v_pc' = "except" /\ v_parsed' = v_parsed
              ELSE /\ v_parsed' = <<[label |-> o.label, score |-> o.score.v,
                                     notes |-> o.notes]>>
                   /\ v_pc' = "build"
         ELSE /\ v_parsed' = <<[label |-> "TRANSITORY", score |-> 0,
                                notes |-> o.notes]>>
              /\ v_pc' = "build"
    /\ UNCHANGED <<v_content, v_available, v_schema, v_response, v_record,
                   v_calls>>

\* classify_with_model, lines 78-114: the result dict; label.upper() raises
\* on a label that is no string
BuildResult ==
    /\ UNCHANGED notValidate
    /\ v_pc = "build"
    /\ IF v_parsed[1].label = "<not a string>"
       THEN v_pc' = "except" /\ v_record' = v_record
       ELSE /\ v_record' = <<BuildRecord(v_parsed[1], v_content)>>
            /\ v_pc' = "validate"
    /\ UNCHANGED <<v_content, v_available, v_schema, v_response, v_parsed,
                   v_calls>>

\* validation that throws the record away when the validator complains
ValidateOutput_Discards ==
    /\ UNCHANGED notValidate
    /\ v_pc = "validate"
    /\ v_record' =
         IF fully_validate_model_output(v_record[1], v_schema) # ""
         THEN <<ErrorRecord(v_content)>> ELSE v_record
    /\ v_pc' = "done"
    /\ UNCHANGED <<v_content, v_available, v_schema, v_response, v_parsed,
                   v_calls>>

\* classify_with_model, lines 116-124: the validator runs, its complaint is
\* attached, and the result is returned
ValidateOutput ==
    /\ UNCHANGED notValidate
    /\ v_pc = "validate"
    /\ v_record' =
         <<[v_record[1] EXCEPT !.validation_error =
                fully_validate_model_output(v_record[1], v_schema)]>>
    /\ v_pc' = "done"
    /\ UNCHANGED <<v_content, v_available, v_schema, v_response, v_parsed,
                   v_calls>>

\* classify_with_model, lines 126-136: the outer handler
HandleModelError ==
    /\ UNCHANGED notValidate
    /\ v_pc = "except"
    /\ v_record' = <<ErrorRecord(v_content)>>
    /\ v_pc' = "done"
    /\ UNCHANGED <<v_content, v_available, v_schema, v_response, v_parsed,
                   v_calls>>

\* process_file_for_output calls classify_with_model for the next file
NextRequest ==
    /\ UNCHANGED notValidate
    /\ v_pc = "done"
    /\ v_pc' = "start"
    /\ v_content' \in ValidateContents
    /\ v_available' \in BOOLEAN
    /\ v_response' = << >>
    /\ v_parsed' = << >>
    /\ v_record' = << >>
    /\ v_calls' = 0
    /\ UNCHANGED v_schema

ValidateNext ==
    \/ EnsureModel
    \/ Generate
    \/ ParseResponse
    \/ BuildResult
    \/ ValidateOutput
    \/ HandleModelError
    \/ NextRequest

InitValidate ==
    /\ EngineIdle /\ BatchIdle /\ ThreadIdle
    /\ ScanIdle /\ ValidateInit /\ ConfigIdle /\ ExtractIdle /\ MoreIdle

SpecValidate == InitValidate /\ [][ValidateNext]_vars

(***************************************************************************)
(* Properties of classify_with_model (SpecValidate).                       *)
(***************************************************************************)
\* the call has returned a record that went through the validator
Validated ==
    /\ v_pc = "done"
    /\ v_parsed # << >>
    /\ v_parsed[1].label # "<not a string>"

\* the record as the classifier's answer determines it
ClassifiedRecord == BuildRecord(v_parsed[1], v_content)

\* C12: whenever the validator finds a violation in a classified record, the
\* record is returned with the classifier's label, score and details as
\* they were and the validator's message attached as validation_error; it
\* is not replaced by ERROR and the model is not asked again.
C12_ValidationAdvisory ==
    Validated /\ fully_validate_model_output(ClassifiedRecord, v_schema) # "" =>
        /\ v_record[1].label = v_parsed[1].label
        /\ v_record[1].label # "ERROR"
        /\ v_record[1].score = v_parsed[1].score
        /\ v_record[1].classification_details
             = ClassifiedRecord.classification_details
        /\ v_record[1].validation_error
             = fully_validate_model_output(ClassifiedRecord, v_schema)
        /\ v_calls = 1

\* C12 witness: the model answered KEEP, which the validator does not allow,
\* and the record came back as KEEP with the complaint attached
C12_Witness ==
    /\ Validated
    /\ v_record[1].label = "KEEP"
    /\ v_record[1].score = 900
    /\ v_record[1].validation_error = "Label not in allowed classes"
    /\ v_calls = 1

\* the invariants of the validator that a record violates, each one judged
\* on its own
ViolatedInvariants(output) ==
    LET details == output.classification_details[1]
        class_keywords == SCHEDULE_6_KEYWORDS(Upper(output.label))
        diff == weighted_confidence(details.model_confidence, output.text,
                                    output.label) - details.hybrid_confidence
    IN {inv \in {"score in range", "hybrid confidence in range",
                 "notes is a string", "hybrid confidence matches",
                 "label allowed", "keywords of the class",
                 "validation_passed"} :
          \/ inv = "score in range"
               /\ (output.score < 0 \/ output.score > 1000)
          \/ inv = "hybrid confidence in range"
               /\ (details.hybrid_confidence < 0
                     \/ details.hybrid_confidence > 10000)
          \/ inv = "notes is a string" /\ details.notes = "<not a string>"
          \/ inv = "hybrid confidence matches" /\ (diff > 100 \/ diff < -100)
          \/ inv = "label allowed"
               /\ Upper(output.label) \notin {"TRANSITORY", "OFFICIAL"}
          \/ inv = "keywords of the class"
               /\ \E k \in 1..Len(details.keywords_found) :
                     \A j \in 1..Len(class_keywords) :
                        details.keywords_found[k] # class_keywords[j]
          \/ inv = "validation_passed"
               /\ details.hybrid_confidence >= 7000
               /\ ~details.validation_passed}

\* the failure reasons a returned record carries: validation_error is one
\* message or none
ReportedReasons ==
    IF v_record[1].validation_error = "" THEN {}
    ELSE {v_record[1].validation_error}

\* C24 (as claimed): the report of a validated record is empty when no
\* invariant is violated and otherwise has one failure reason for each
\* violated invariant.
C24_OneReasonPerViolation ==
    Validated =>
        Cardinality(ReportedReasons)
            = Cardinality(ViolatedInvariants(ClassifiedRecord))

\* C25 (as claimed): a validated record whose label is one of KEEP,
\* TRANSITORY, ARCHIVE, DESTROY carries no label-membership failure, and a
\* record with any other label, if nothing else is wrong with it, carries one.
C25_ValidatorAcceptsTaxonomy ==
    Validated =>
        /\ (v_record[1].label \in LLM_LABELS =>
              v_record[1].validation_error # "Label not in allowed classes")
        /\ (v_record[1].label \notin LLM_LABELS
               /\ ViolatedInvariants(ClassifiedRecord) \subseteq {"label allowed"}
             => v_record[1].validation_error = "Label not in allowed classes")

(***************************************************************************)
(* load_config (config.py).  "<absent>" stands for a key the mapping does  *)
(* not have, "<unset>" for a variable the environment does not have, and   *)
(* "<null>" for a YAML null.                                               *)
(***************************************************************************)
\* the defaults of the AppConfig dataclass
DefaultModelName == "pierce-county-records-classifier-phi2:latest"
DefaultOllamaUrl == "http://localhost:11434"

\* a mapping as yaml.safe_load returns it
Mapping(model_name, ollama_url, extra) ==
    [kind |-> "mapping", model_name |-> model_name, ollama_url |-> ollama_url,
     extra |-> extra]

EmptyMapping == Mapping("<absent>", "<absent>", FALSE)

\* the file at CONFIG_PATH: not there, not readable or not YAML, empty, a
\* YAML list, or a mapping with some of the two keys and maybe another key
ConfigFiles ==
    {[kind |-> k, model_name |-> "<absent>", ollama_url |-> "<absent>",
      extra |-> FALSE] : k \in {"missing", "unreadable", "empty", "list"}}
      \cup {Mapping(mn, url, e) : mn \in {"<absent>", "a", "<null>"},
                                  url \in {"<absent>", "http://x"},
                                  e \in BOOLEAN}

Environments ==
    [PCRC_MODEL : {"<unset>", "", "b"},
     PCRC_OLLAMA_URL : {"<unset>", "", "http://y"}]

\* if env_value: the variable is there and its value is not empty
Truthy(value) == value \notin {"<unset>", ""}

AppConfig(model_name, ollama_url) ==
    [model_name |-> model_name, ollama_url |-> ollama_url]

ConfigInit ==
    /\ c_pc = "load"
    /\ c_file \in ConfigFiles
    /\ c_env \in Environments
    /\ c_data = << >>
    /\ c_config = << >>

\* load_config, lines 40-47: data = yaml.safe_load(f) or {}, and {} when the
\* file is not there or loading it fails
LoadYaml ==
    /\ UNCHANGED notConfig
    /\ c_pc = "load"
    /\ c_data' = IF c_file.kind \in {"mapping", "list"}
                 THEN <<c_file>> ELSE <<EmptyMapping>>
    /\ c_pc' = "env"
    /\ UNCHANGED <<c_file, c_env, c_config>>

\* the environment only filling in what the file leaves out
ApplyEnv_FileWins ==
    /\ UNCHANGED notConfig
    /\ c_pc = "env"
    /\ LET data == c_data[1] IN
         /\ c_data' = <<[data EXCEPT
               !.model_name =
                   IF Truthy(c_env.PCRC_MODEL) /\ data.model_name = "<absent>"
                   THEN c_env.PCRC_MODEL ELSE @,
               !.ollama_url =
                   IF Truthy(c_env.PCRC_OLLAMA_URL) /\ data.ollama_url = "<absent>"
                   THEN c_env.PCRC_OLLAMA_URL ELSE @]>>
         /\ c_pc' = "build"
    /\ UNCHANGED <<c_file, c_env, c_config>>

\* load_config, lines 48-53: the two variables written over data; the item
\* assignment raises TypeError when data is not a mapping
ApplyEnv ==
    /\ UNCHANGED notConfig
    /\ c_pc = "env"
    /\ LET data == c_data[1] IN
         IF /\ data.kind # "mapping"
            /\ Truthy(c_env.PCRC_MODEL) \/ Truthy(c_env.PCRC_OLLAMA_URL)
         THEN c_pc' = "raised" /\ c_data' = c_data
         ELSE /\ c_data' = <<[data EXCEPT
                    !.model_name = IF Truthy(c_env.PCRC_MODEL)
                                   THEN c_env.PCRC_MODEL ELSE @,
                    !.ollama_url = IF Truthy(c_env.PCRC_OLLAMA_URL)
                                   THEN c_env.PCRC_OLLAMA_URL ELSE @]>>
              /\ c_pc' = "build"
    /\ UNCHANGED <<c_file, c_env, c_config>>

\* load_config, line 54: AppConfig(**data), which raises TypeError when data
\* is not a mapping or has a key that is no field
BuildConfig ==
    /\ UNCHANGED notConfig
    /\ c_pc = "build"
    /\ LET data == c_data[1] IN
         IF data.kind # "mapping" \/ data.extra
         THEN c_pc' = "raised" /\ c_config' = c_config
         ELSE /\ c_config' = <<AppConfig(
                     IF data.model_name = "<absent>" THEN DefaultModelName
                     ELSE data.model_name,
                     IF data.ollama_url = "<absent>" THEN DefaultOllamaUrl
                     ELSE data.ollama_url)>>
              /\ c_pc' = "done"
    /\ UNCHANGED <<c_file, c_env, c_data>>

\* load_config is called again, in another environment
NextLoad ==
    /\ UNCHANGED notConfig
    /\ c_pc \in {"done", "raised"}
    /\ c_pc' = "load"
    /\ c_file' \in ConfigFiles
    /\ c_env' \in Environments
    /\ c_data' = << >>
    /\ c_config' = << >>

ConfigNext ==
    \/ LoadYaml
    \/ ApplyEnv
    \/ BuildConfig
    \/ NextLoad

InitConfig ==
    /\ EngineIdle /\ BatchIdle /\ ThreadIdle
    /\ ScanIdle /\ ValidateIdle /\ ConfigInit /\ ExtractIdle /\ MoreIdle

SpecConfig == InitConfig /\ [][ConfigNext]_vars

(***************************************************************************)
(* Properties of load_config (SpecConfig).                                 *)
(***************************************************************************)
\* the value the file gives a field, or the default when it gives none
FileOrDefault(in_file, default) ==
    IF c_file.kind = "mapping" /\ in_file # "<absent>" THEN in_file ELSE default

Chars == {"a", " ", "\t", "\n", "\r"}

\* what a file, or a parser reading it, can hold
RawTexts == UNION {[1..n -> Chars] : n \in 0..MaxRawLen}

IsSpaceOrTab(c) == c \in {" ", "\t"}
IsLineEnd(c) == c \in {"\n", "\r"}
IsWhitespace(c) == IsSpaceOrTab(c) \/ IsLineEnd(c)

\* re.sub(r'[\r\n]+', '\n', text)
RECURSIVE CollapseLineEnds(_)
CollapseLineEnds(text) ==
    IF text = << >> THEN << >>
    ELSE IF IsLineEnd(Head(text))
    THEN IF Len(text) >= 2 /\ IsLineEnd(text[2])
         THEN CollapseLineEnds(Tail(text))
         ELSE <<"\n">> \o CollapseLineEnds(Tail(text))
    ELSE <<Head(text)>> \o CollapseLineEnds(Tail(text))

\* re.sub(r'[ \t]+', ' ', text)
RECURSIVE CollapseBlanks(_)
CollapseBlanks(text) ==
    IF text = << >> THEN << >>
    ELSE IF IsSpaceOrTab(Head(text))
    THEN IF Len(text) >= 2 /\ IsSpaceOrTab(text[2])
         THEN CollapseBlanks(Tail(text))
         ELSE <<" ">> \o CollapseBlanks(Tail(text))
    ELSE <<Head(text)>> \o CollapseBlanks(Tail(text))

\* str.strip()
RECURSIVE Strip(_)
Strip(text) ==
    IF text = << >> THEN << >>
    ELSE IF IsWhitespace(Head(text)) THEN Strip(Tail(text))
    ELSE IF IsWhitespace(text[Len(text)])
    THEN Strip(SubSeq(text, 1, Len(text) - 1))
    ELSE text

\* _clean_text
clean_text(text) == Strip(CollapseBlanks(CollapseLineEnds(text)))

\* text[:n], and fp.read(n)
Take(text, n) == SubSeq(text, 1, Min(n, Len(text)))

\* " ".join(content.split())
JoinSplit(text) ==
    Strip(CollapseBlanks([i \in 1..Len(text) |->
                             IF IsWhitespace(text[i]) THEN " " ELSE text[i]]))

\* what one PDF text source does: not installed, raises, yields no text, or
\* yields the file's text
PdfStatuses == {"missing", "raises", "empty", "text"}

\* one call: the function, the file's suffix and text, what opening or
\* parsing it does, whether the format's parser is installed, and the three
\* PDF text sources
ExtractInput(fn, suffix, raw, io, installed, pdf) ==
    [fn |-> fn, suffix |-> suffix, raw |-> raw, io |-> io,
     installed |-> installed, pdf |-> pdf]

\* the three PDF text sources: pdfplumber, PyPDF2, and OCR by pytesseract
PdfSources ==
    {<<p1, p2, p3>> : p1 \in PdfStatuses, p2 \in {"missing", "raises", "text"},
                      p3 \in {"missing", "text"}}

\* the file's text matters only where something reads it
ExtractInputs ==
    {ExtractInput("extract_file_content", sf, raw, "ok", TRUE, <<"missing">>) :
        sf \in {".txt", ".TXT"}, raw \in RawTexts}
      \cup {ExtractInput("extract_file_content", ".txt", << >>, "OSError", TRUE,
                         <<"missing">>)}
      \cup {ExtractInput("extract_file_content", ".pdf", raw, "ok", TRUE, pdf) :
               raw \in RawTexts,
               pdf \in {q \in PdfSources : \E k \in 1..3 : q[k] = "text"}}
      \cup {ExtractInput("extract_file_content", ".pdf", << >>, "ok", TRUE, pdf) :
               pdf \in PdfSources}
      \cup {ExtractInput("extract_file_content", sf, raw, "ok", TRUE,
                         <<"missing">>) :
               sf \in {".docx", ".pptx", ".xlsx", ".doc"}, raw \in RawTexts}
      \cup {ExtractInput("extract_file_content", sf, << >>, io, inst,
                         <<"missing">>) :
               sf \in {".docx", ".pptx", ".xlsx"},
               io \in {"ok", "corrupt"}, inst \in BOOLEAN}
      \cup {ExtractInput("extract_file_content", ".doc", << >>, io, TRUE,
                         <<"missing">>) :
               io \in {"FileNotFoundError", "CalledProcessError",
                       "PermissionError"}}
      \cup {ExtractInput("extract_file_content", sf, <<"a">>, "ok", TRUE,
                         <<"missing">>) : sf \in {".csv", ""}}
      \cup {ExtractInput("read_chunk", ".txt", raw, "ok", TRUE, <<"missing">>) :
               raw \in RawTexts}
      \cup {ExtractInput("read_chunk", ".txt", << >>, "OSError", TRUE,
                         <<"missing">>)}

Returned(value) == [raised |-> FALSE, value |-> value]
Raised(exception) == [raised |-> TRUE, value |-> <<exception>>]
Diagnostic(message) == Returned(<<message>>)

\* the text after one PDF source ran on what the sources before it left
PdfStep(text, status, raw) ==
    IF text # << >> \/ status = "missing" THEN text
    ELSE IF status = "text" THEN raw
    ELSE << >>

\* extract_file_content, lines 171-202
ExtractPdf(in, max_chars) ==
    LET text == PdfStep(PdfStep(PdfStep(<< >>, in.pdf[1], in.raw),
                                in.pdf[2], in.raw), in.pdf[3], in.raw)
    IN IF text # << >> THEN Returned(Take(clean_text(text), max_chars))
       ELSE Diagnostic("[Could not extract text from PDF]")

\* extract_file_content, lines 203-212, 224-241, 242-262: a format read by
\* an optional package
ExtractWithPackage(in, max_chars, error, not_installed) ==
    IF ~in.installed THEN Diagnostic(not_installed)
    ELSE IF in.io # "ok" THEN Diagnostic(error)
    ELSE Returned(Take(clean_text(in.raw), max_chars))

\* extract_file_content, lines 160-264: the body of the outer try
ExtractBody(in, max_chars) ==
    LET suffix == Lower(in.suffix) IN
    CASE suffix = ".txt" ->
           IF in.io # "ok" THEN Diagnostic("[Error reading file: ]")
           ELSE Returned(clean_text(Take(in.raw, max_chars)))
      [] suffix = ".pdf" -> ExtractPdf(in, max_chars)
      [] suffix = ".docx" ->
           ExtractWithPackage(in, max_chars, "[Error reading DOCX: ]",
                              "[python-docx not installed]")
      [] suffix = ".doc" ->
           IF in.io = "ok" THEN Returned(Take(clean_text(in.raw), max_chars))
           ELSE IF in.io = "FileNotFoundError"
           THEN Diagnostic("[antiword not installed for .doc]")
           ELSE IF in.io = "CalledProcessError"
           THEN Diagnostic("[Error reading DOC: ]")
           ELSE Raised(in.io)
      [] suffix = ".pptx" ->
           ExtractWithPackage(in, max_chars, "[Error reading PPTX: ]",
                              "[python-pptx not installed]")
      [] suffix = ".xlsx" ->
           ExtractWithPackage(in, max_chars, "[Error reading XLSX: ]",
                              "[openpyxl not installed]")
      [] OTHER -> Diagnostic("[Unsupported file type: ]")

\* the function without the try of line 159
extract_file_content_NoOuterTry(in, max_chars) == ExtractBody(in, max_chars)

\* extract_file_content: the body, and the handler of lines 265-266
extract_file_content(in, max_chars) ==
    IF ExtractBody(in, max_chars).raised
    THEN Diagnostic("[Error extracting content: ]")
    ELSE ExtractBody(in, max_chars)

\* read_chunk
read_chunk(in, max_chars) ==
    IF in.io # "ok" THEN Diagnostic("[error reading : ]")
    ELSE Returned(JoinSplit(Take(in.raw, max_chars)))

ExtractInit ==
    /\ x_pc = "call"
    /\ x_input \in ExtractInputs
    /\ x_result = << >>

\* extract_file_content(f, max_chars) is called and returns
ExtractFileContent ==
    /\ UNCHANGED notExtract
    /\ x_pc = "call"
    /\ x_input.fn = "extract_file_content"
    /\ x_result' = <<extract_file_content(x_input, MaxChars)>>
    /\ x_pc' = "returned"
    /\ UNCHANGED x_input

\* read_chunk(file_path, max_chars) is called and returns
ReadChunk ==
    /\ UNCHANGED notExtract
    /\ x_pc = "call"
    /\ x_input.fn = "read_chunk"
    /\ x_result' = <<read_chunk(x_input, MaxChars)>>
    /\ x_pc' = "returned"
    /\ UNCHANGED x_input

ExtractNext ==
    \/ ExtractFileContent
    \/ ReadChunk

InitExtract ==
    /\ EngineIdle /\ BatchIdle /\ ThreadIdle
    /\ ScanIdle /\ ValidateIdle /\ ConfigIdle /\ ExtractInit /\ MoreIdle

SpecExtract == InitExtract /\ [][ExtractNext]_vars

(***************************************************************************)
(* Properties of the extraction (SpecExtract).                             *)
(***************************************************************************)
\* a bracketed diagnostic string
IsDiagnostic(value) ==
    /\ Len(value) = 1
    /\ value[1] \notin Chars

\* runs of spaces and tabs are collapsed and line terminators unified
WhitespaceNormalized(value) ==
    /\ \A i \in 1..Len(value) : value[i] \in {"a", " ", "\n"}
    /\ \A i \in 1..(Len(value) - 1) :
         ~(value[i] = " " /\ value[i + 1] = " ")
           /\ ~(value[i] = "\n" /\ value[i + 1] = "\n")

WordTexts == UNION {[1..n -> Tokens] : n \in 0..MaxWords}

\* what the service does when no usable answer comes back
FailedOutcomes == {o \in ServiceOutcomes : RequestFailed(o)}

HeuristicInit ==
    /\ h_pc = "llm"
    /\ h_content \in WordTexts
    /\ h_result = << >>
    /\ h_score = << >>

\* classify_with_llm, lines 139-190: the request raises RequestException and
\* the heuristic's answer is returned with used_fallback set
FallbackClassify ==
    /\ UNCHANGED notHeuristic
    /\ h_pc = "llm"
    /\ \E o \in FailedOutcomes :
         h_result' = <<ClassifyWithLLM(o, h_content)>>
    /\ h_pc' = "hybrid"
    /\ UNCHANGED <<h_content, h_score>>

\* classify_file, lines 424-429: the hybrid confidence of the fallback's
\* answer, for a file within the retention period
FallbackScore ==
    /\ UNCHANGED notHeuristic
    /\ h_pc = "hybrid"
    /\ \E stat_ok \in BOOLEAN :
         h_score' = <<HybridConfidence(h_result[1].confidenceScore, stat_ok, 1,
                                       h_content,
                                       h_result[1].modelDetermination)>>
    /\ h_pc' = "done"
    /\ UNCHANGED <<h_content, h_result>>

HeuristicNext == FallbackClassify \/ FallbackScore

InitHeuristic ==
    /\ EngineIdle /\ BatchIdle /\ ThreadIdle
    /\ ScanIdle /\ ValidateIdle /\ ConfigIdle /\ ExtractIdle
    /\ HeuristicInit /\ ValidatorIdle /\ GuiIdle

SpecHeuristic == InitHeuristic /\ [][HeuristicNext]_vars

(***************************************************************************)
(* Properties of the fallback path.                                        *)
(***************************************************************************)
\* the words of a label's keyword list
KeywordSet(label) ==
    {SCHEDULE_6_KEYWORDS(label)[i] : i \in 1..Len(SCHEDULE_6_KEYWORDS(label))}

\* how many words of the content are, lower-cased, keywords of the label
Occurrences(label) ==
    Cardinality({i \in 1..Len(h_content) :
                    Lower(h_content[i]) \in KeywordSet(label)})

NoKeyword == Occurrences("TRANSITORY") = 0 /\ Occurrences("OFFICIAL") = 0

\* C21 (as claimed): for content without a keyword of any label, the empty
\* content included, the heuristic returns TRANSITORY with confidence 50 and
\* a rationale that quotes a snippet of the content.
C21_NoKeywordQuotesSnippet ==
    h_result # << >> /\ NoKeyword =>
        /\ h_result[1].modelDetermination = "TRANSITORY"
        /\ h_result[1].confidenceScore = 50
        /\ h_result[1].contextualInsights.fmt = "No keywords found. Sample: "

ParsedAnswers ==
    [label : {"TRANSITORY", "official", "KEEP"},
     score : {0, 500, 900, 1000},
     notes : {"notes"}]

\* the records classify_with_model builds
BuiltRecords ==
    {BuildRecord(parsed, text) :
        parsed \in ParsedAnswers, text \in ValidateContents}

\* a record with its validation_passed flag set to f
WithFlag(record, f) ==
    [record EXCEPT !.classification_details =
        <<[record.classification_details[1] EXCEPT !.validation_passed = f]>>]

\* records as a caller may hand them in: built ones, with either flag
ValidatorRecords == {WithFlag(record, f) : record \in BuiltRecords, f \in BOOLEAN}

ValidatorInit ==
    /\ r_pc = "call"
    /\ r_output \in ValidatorRecords
    /\ r_schema \in BOOLEAN
    /\ r_report = << >>

\* fully_validate_model_output, lines 157-210
FullyValidate ==
    /\ UNCHANGED notValidator
    /\ r_pc = "call"
    /\ r_report' = <<fully_validate_model_output(r_output, r_schema)>>
    /\ r_pc' = "returned"
    /\ UNCHANGED <<r_output, r_schema>>

ValidatorNext == FullyValidate

InitValidator ==
    /\ EngineIdle /\ BatchIdle /\ ThreadIdle
    /\ ScanIdle /\ ValidateIdle /\ ConfigIdle /\ ExtractIdle
    /\ HeuristicIdle /\ ValidatorInit /\ GuiIdle

SpecValidator == InitValidator /\ [][ValidatorNext]_vars

(***************************************************************************)
(* Properties of the validator (SpecValidator).                            *)
(***************************************************************************)
RecordDetails == r_output.classification_details[1]

\* nothing but the flag can be wrong with the record
OnlyFlagInQuestion ==
    ViolatedInvariants(r_output) \subseteq {"validation_passed"}

\* C26 (as claimed): a record whose validation_passed differs from
\* (hybrid confidence >= 0.7) is flagged, in either direction, and a record
\* built by classify_with_model has the two equal and is not flagged for it.
C26_FlagMismatchBothWays ==
    r_pc = "returned" /\ OnlyFlagInQuestion =>
        /\ (RecordDetails.validation_passed
               # (RecordDetails.hybrid_confidence >= 7000)
             => r_report[1] = "validation_passed must be True")
        /\ (r_output \in BuiltRecords => r_report[1] = "")

\* C26 (amended): a record with hybrid confidence >= 0.7 and
\* validation_passed false is flagged; a record with hybrid confidence below
\* 0.7 is not flagged for its flag, whatever the flag says; and a record
\* built by classify_with_model has validation_passed equal to
\* (hybrid confidence >= 0.7) and is not flagged for it.
C26_FlagMismatchOneWay ==
    r_pc = "returned" /\ OnlyFlagInQuestion =>
        /\ (RecordDetails.hybrid_confidence >= 7000
               /\ ~RecordDetails.validation_passed
             => r_report[1] = "validation_passed must be True")
        /\ (RecordDetails.hybrid_confidence < 7000 \/ RecordDetails.validation_passed
             => r_report[1] = "")
        /\ (r_output \in BuiltRecords =>
              /\ RecordDetails.validation_passed
                   = (RecordDetails.hybrid_confidence >= 7000)
              /\ r_report[1] = "")

\* C26 witness: a record with hybrid confidence 0.7 that says it did not
\* pass came back flagged
C26_Witness ==
    /\ r_pc = "returned"
    /\ r_output.label = "TRANSITORY"
    /\ RecordDetails.hybrid_confidence = 7000
    /\ ~RecordDetails.validation_passed
    /\ r_report = <<"validation_passed must be True">>

(***************************************************************************)
(* The main screen: runs of classify_files started and stopped by the      *)
(* user.  Everything runs on the GUI thread: a click, a Tk callback and    *)
(* one step of an asyncio task (from one await to the next) are atomic.    *)
(* A start is served only while fewer than two tasks are unfinished and    *)
(* at most MaxWaiting status callbacks wait.                                *)
(***************************************************************************)
\* batch_size of classify_files
BatchSize == 5

Slots == {1, 2}

\* a task: the await it is suspended at, the files enumerated (e), the files
\* in files_batch (b), those of the batch dealt with (j), the files whose
\* processing began (started), and whether a cancellation awaits delivery
NewTask ==
    [pc |-> "created", phase |-> "loop", e |-> 0, b |-> 0, j |-> 0,
     started |-> 0, cancel |-> FALSE]

NoTask == [NewTask EXCEPT !.pc = "none"]

Finished(task) == task.pc \in {"none", "done"}

\* what a step leaves: the task and self.processing
Outcome(task, processing) == [task |-> task, processing |-> processing]

\* classify_files, lines 1486-1491: the finally block
Finally(task) == Outcome([task EXCEPT !.pc = "done", !.cancel = FALSE], FALSE)

\* classify_files, lines 1461-1469 and the finally block
Completion(task, processing) == Finally(task)

\* the last partial batch with the test of line 1426 left out
FinalFile_Unchecked(task, processing) ==
    IF task.j = task.b THEN Completion(task, processing)
    ELSE Outcome([task EXCEPT !.pc = "process", !.phase = "final",
                              !.started = @ + 1], processing)

\* classify_files, lines 1425-1432: the next file of the last partial batch
FinalFile(task, processing) ==
    IF task.j = task.b \/ ~processing THEN Completion(task, processing)
    ELSE Outcome([task EXCEPT !.pc = "process", !.phase = "final",
                              !.started = @ + 1], processing)

\* classify_files, lines 1420-1424: after the async for
AfterLoop(task, processing) ==
    IF task.b > 0 /\ processing
    THEN FinalFile([task EXCEPT !.j = 0], processing)
    ELSE Completion(task, processing)

\* classify_files, lines 1349-1357 and 1415-1418: the next file of a full
\* batch, or the pause after it
BatchFile(task, processing) ==
    IF task.j = task.b
    THEN Outcome([task EXCEPT !.b = 0, !.j = 0, !.pc = "batch_sleep"],
                 processing)
    ELSE IF ~processing THEN Finally(task)
    ELSE Outcome([task EXCEPT !.pc = "process", !.phase = "loop",
                              !.started = @ + 1], processing)

\* enumerate_files, lines 1511-1528, and classify_files, lines 1326-1337:
\* the generator looks at the next entry, yields it, and the loop body
\* takes it into the batch
Enumerate(task, processing, n) ==
    IF task.e = n \/ ~processing THEN AfterLoop(task, processing)
    ELSE LET next == [task EXCEPT !.e = @ + 1, !.b = @ + 1] IN
         IF next.b >= BatchSize
         THEN BatchFile([next EXCEPT !.j = 0], processing)
         ELSE Outcome([next EXCEPT !.pc = "enum_sleep"], processing)

GuiInit ==
    /\ g_n \in 1..MaxGuiFiles
    /\ g_processing = FALSE
    /\ g_current = 0
    /\ g_tasks = [s \in Slots |-> NoTask]
    /\ g_pending = [s \in Slots |-> 0]
    /\ g_rows = [s \in Slots |-> 0]
    /\ g_cancelled = 0
    /\ g_last = "none"

\* task.cancel() on self._classification_task if it is not done
CancelCurrent(tasks) ==
    IF g_current # 0 /\ ~Finished(tasks[g_current])
    THEN [tasks EXCEPT ![g_current].cancel = TRUE]
    ELSE tasks

\* _toggle_classification with self.processing False, lines 1236-1244, and
\* _start_classification, lines 1616-1670
StartClassification ==
    /\ UNCHANGED notGui
    /\ ~g_processing
    /\ g_cancelled <= MaxWaiting
    /\ \E s \in Slots :
         /\ Finished(g_tasks[s])
         /\ g_pending[s] = 0
         /\ g_tasks' = [CancelCurrent(g_tasks) EXCEPT ![s] = NewTask]
         /\ g_current' = s
    /\ g_processing' = TRUE
    /\ g_rows' = [s \in Slots |-> 0]
    /\ g_last' = "start"
    /\ UNCHANGED <<g_n, g_pending, g_cancelled>>

\* _toggle_classification with self.processing True, line 1235, and
\* _stop_classification, lines 1087-1136
StopClassification ==
    /\ UNCHANGED notGui
    /\ g_processing
    /\ g_processing' = FALSE
    /\ g_tasks' = CancelCurrent(g_tasks)
    /\ g_last' = "stop"
    /\ UNCHANGED <<g_n, g_current, g_pending, g_rows, g_cancelled>>

\* a step of task s left these
Leaves(s, out) ==
    /\ g_tasks' = [g_tasks EXCEPT ![s] = out.task]
    /\ g_processing' = out.processing

\* the task runs for the first time, or resumes in enumerate_files after
\* its sleep of line 1528
TaskEnumerates(s) ==
    /\ UNCHANGED notGui
    /\ g_tasks[s].pc \in {"created", "enum_sleep"}
    /\ ~g_tasks[s].cancel
    /\ Leaves(s, Enumerate(g_tasks[s], g_processing, g_n))
    /\ UNCHANGED <<g_n, g_current, g_pending, g_rows, g_cancelled, g_last>>

\* _process_file has returned: update_ui_sync schedules the row and the
\* task sleeps, lines 1358-1393 and 1433-1443
TaskFileProcessed(s) ==
    /\ UNCHANGED notGui
    /\ g_tasks[s].pc = "process"
    /\ ~g_tasks[s].cancel
    /\ g_tasks' = [g_tasks EXCEPT ![s].pc = "file_sleep"]
    /\ g_pending' = [g_pending EXCEPT ![s] = @ + 1]
    /\ UNCHANGED <<g_n, g_processing, g_current, g_rows, g_cancelled, g_last>>

\* the task resumes after the sleep that follows a file or a full batch
TaskResumes(s) ==
    /\ UNCHANGED notGui
    /\ g_tasks[s].pc \in {"file_sleep", "batch_sleep"}
    /\ ~g_tasks[s].cancel
    /\ LET task == g_tasks[s] IN
         Leaves(s,
           IF task.pc = "batch_sleep"
           THEN Outcome([task EXCEPT !.pc = "enum_sleep"], g_processing)
           ELSE IF task.phase = "loop"
           THEN BatchFile([task EXCEPT !.j = @ + 1], g_processing)
           ELSE FinalFile([task EXCEPT !.j = @ + 1], g_processing))
    /\ UNCHANGED <<g_n, g_current, g_pending, g_rows, g_cancelled, g_last>>

\* CancelledError is thrown into the task where it waits: a task that never
\* ran just ends; enumerate_files swallows the error (lines 1530-1533) and
\* classify_files goes on after its loop; elsewhere the handler of lines
\* 1471-1478 schedules update_cancelled_status and the finally block runs
TaskCancelled(s) ==
    /\ UNCHANGED notGui
    /\ ~Finished(g_tasks[s])
    /\ g_tasks[s].cancel
    /\ LET task == [g_tasks[s] EXCEPT !.cancel = FALSE] IN
         CASE task.pc = "created" ->
                /\ Leaves(s, Outcome([task EXCEPT !.pc = "done"], g_processing))
                /\ g_cancelled' = g_cancelled
           [] task.pc = "enum_sleep" ->
                /\ Leaves(s, AfterLoop(task, g_processing))
                /\ g_cancelled' = g_cancelled
           [] OTHER ->
                /\ Leaves(s, Finally(task))
                /\ g_cancelled' = g_cancelled + 1
    /\ UNCHANGED <<g_n, g_current, g_pending, g_rows, g_last>>

\* Tk runs an _update callback of update_ui_sync, lines 910-963
TkInsertsRow(s) ==
    /\ UNCHANGED notGui
    /\ g_pending[s] > 0
    /\ g_pending' = [g_pending EXCEPT ![s] = @ - 1]
    /\ g_rows' = [g_rows EXCEPT ![s] = @ + 1]
    /\ UNCHANGED <<g_n, g_processing, g_current, g_tasks, g_cancelled, g_last>>

\* Tk runs update_cancelled_status, lines 1472-1476
TkCancelledStatus ==
    /\ UNCHANGED notGui
    /\ g_cancelled > 0
    /\ g_cancelled' = g_cancelled - 1
    /\ g_processing' = FALSE
    /\ UNCHANGED <<g_n, g_current, g_tasks, g_pending, g_rows, g_last>>

GuiNext ==
    \/ StartClassification
    \/ StopClassification
    \/ \E s \in Slots : TaskEnumerates(s)
    \/ \E s \in Slots : TaskFileProcessed(s)
    \/ \E s \in Slots : TaskResumes(s)
    \/ \E s \in Slots : TaskCancelled(s)
    \/ \E s \in Slots : TkInsertsRow(s)
    \/ TkCancelledStatus

InitGui ==
    /\ EngineIdle /\ BatchIdle /\ ThreadIdle
    /\ ScanIdle /\ ValidateIdle /\ ConfigIdle /\ ExtractIdle
    /\ HeuristicIdle /\ ValidatorIdle /\ GuiInit

SpecGui == InitGui /\ [][GuiNext]_vars

(***************************************************************************)
(* Properties of the main screen (SpecGui).                                *)
(***************************************************************************)
\* some task begins to process a file in this step
SomeFileStarts == \E s \in Slots : g_tasks'[s].started > g_tasks[s].started

C29_CleanupSparesNewRun ==
    g_last = "start" /\ ~Finished(g_tasks[g_current]) => g_processing

====
